---- MODULE Spec2Model ----
(***************************************************************************)
(* B-Segment allocation: reconciliation of the central registry against    *)
(* the channel extracts (PISA, ESM, PM7, Workon, RGBA, SMD), as done by     *)
(* src/api/index.py.                                                        *)
(*                                                                         *)
(* Text is a sequence of one-character strings, so that strip(), lower(),  *)
(* upper() and slicing are computed and not assumed.  A spreadsheet cell   *)
(* is a text, or NaN (an empty cell read by pandas).  A DataFrame is a     *)
(* sequence of records, one field per column.                              *)
(***************************************************************************)
EXTENDS Integers, Sequences, FiniteSets, TLC

\* ------------------------------------------------------------------ bounds
\* rows of the central registry file
MaxReg == 1
\* rows of all the channel extracts of one run, together
MaxRows == 2
\* rows of the region mapping file
MaxMap == 1
\* rows of the central registry file where their order is looked at
MaxOrder == 2
\* rows of the PMD dump file, and of the PMD central file
MaxDump == 2
MaxPmdCentral == 2
\* characters of a column name as read from a sheet
MaxName == 3
\* B-segment runs of one session, each on the output of the one before
MaxRuns == 3

\* -------------------------------------------------------------------- text
\* An empty cell (float NaN) and Python's None.  Both are one-element
\* sequences whose element is no character, so no text equals them.
NaN == <<"<NaN>">>
None == <<"<None>">>

IsNA(v) == v = NaN \/ v = None

UpperAlpha == <<"A","B","C","D","E","F","G","H","I","J","K","L","M",
                "N","O","P","Q","R","S","T","U","V","W","X","Y","Z">>
LowerAlpha == <<"a","b","c","d","e","f","g","h","i","j","k","l","m",
                "n","o","p","q","r","s","t","u","v","w","x","y","z">>

LowerChar(c) ==
    IF \E i \in 1..26 : UpperAlpha[i] = c
    THEN LowerAlpha[CHOOSE i \in 1..26 : UpperAlpha[i] = c]
    ELSE c

UpperChar(c) ==
    IF \E i \in 1..26 : LowerAlpha[i] = c
    THEN UpperAlpha[CHOOSE i \in 1..26 : LowerAlpha[i] = c]
    ELSE c

\* str.lower() and str.upper()
Lower(s) == [i \in 1..Len(s) |-> LowerChar(s[i])]
Upper(s) == [i \in 1..Len(s) |-> UpperChar(s[i])]

\* str.strip(): leading and trailing whitespace removed
RECURSIVE LStrip(_)
LStrip(s) == IF s # <<>> /\ Head(s) = " " THEN LStrip(Tail(s)) ELSE s
RECURSIVE RStrip(_)
RStrip(s) ==
    IF s # <<>> /\ s[Len(s)] = " " THEN RStrip(SubSeq(s, 1, Len(s) - 1)) ELSE s
Strip(s) == RStrip(LStrip(s))

\* s[:n]
Slice(s, n) == SubSeq(s, 1, IF Len(s) < n THEN Len(s) ELSE n)

\* str(v) and Series.astype(str): NaN gives 'nan', None gives 'None'
sNan == <<"n","a","n">>
sNone == <<"N","o","n","e">>
Str(v) == IF v = NaN THEN sNan ELSE IF v = None THEN sNone ELSE v

\* Series.replace('nan', ''): a value that is exactly 'nan' becomes ''
ReplaceNan(v) == IF v = sNan THEN <<>> ELSE v

\* Series.fillna(''): NaN and None become ''
FillNa(v) == IF IsNA(v) THEN <<>> ELSE v

\* ------------------------------------------------------ clean_column_names
\* the characters that re.sub(r'[^a-z0-9_]', '', col) keeps
CleanChars ==
    {LowerAlpha[i] : i \in 1..26}
      \cup {"0","1","2","3","4","5","6","7","8","9"} \cup {"_"}

\* re.sub(r'\s+', '_', col): every run of whitespace becomes one underscore
RECURSIVE CollapseWhitespace(_)
CollapseWhitespace(s) ==
    IF s = <<>> THEN <<>>
    ELSE IF Head(s) = " " THEN <<"_">> \o CollapseWhitespace(LStrip(Tail(s)))
    ELSE <<Head(s)>> \o CollapseWhitespace(Tail(s))

\* col.strip('_')
RECURSIVE LStripUnderscore(_)
LStripUnderscore(s) ==
    IF s # <<>> /\ Head(s) = "_" THEN LStripUnderscore(Tail(s)) ELSE s
RECURSIVE RStripUnderscore(_)
RStripUnderscore(s) ==
    IF s # <<>> /\ s[Len(s)] = "_"
    THEN RStripUnderscore(SubSeq(s, 1, Len(s) - 1)) ELSE s

\* mutant of clean_column_name: without the last step, strip('_')
clean_column_name_unstripped(col) ==
    SelectSeq(CollapseWhitespace(Lower(Strip(Str(col)))), LAMBDA c : c \in CleanChars)

\* one column name through the loop body of clean_column_names
clean_column_name(col) ==
    LET lowered == Lower(Strip(Str(col)))
        joined == CollapseWhitespace(lowered)
        kept == SelectSeq(joined, LAMBDA c : c \in CleanChars)
    IN RStripUnderscore(LStripUnderscore(kept))

\* ------------------------------------------------------------------- dates
\* A date is a day of January 2024, <<"<date>", day>>; NaT is the missing
\* date.  The run date is read from the clock.
NaT == <<"<NaT>">>
Timestamp(day) == <<"<date>", day>>
IsTimestamp(v) == Len(v) = 2 /\ v[1] = "<date>"
Days == 1..31

Digit == <<"0","1","2","3","4","5","6","7","8","9">>

\* str(n) of a natural number
RECURSIVE Digits(_)
Digits(n) ==
    IF n < 10 THEN <<Digit[n + 1]>>
    ELSE Digits(n \div 10) \o <<Digit[(n % 10) + 1]>>

\* str(n) of an int, and of a float with an integral value
IntStr(n) == IF n < 0 THEN <<"-">> \o Digits(0 - n) ELSE Digits(n)
FloatStr(n) == IntStr(n) \o <<".","0">>

\* strftime("%m/%d/%Y"): month and day with two digits
strftime_mdY(day) ==
    <<"0","1","/">> \o (IF day < 10 THEN <<"0">> ELSE <<>>) \o Digits(day)
      \o <<"/","2","0","2","4">>

\* f"{x.month}/{x.day}/{x.year}"
MonthDayYear(day) == <<"1","/">> \o Digits(day) \o <<"/","2","0","2","4">>

\* pd.to_datetime(v, errors='coerce'): a date stays, a text that reads as a
\* month/day/year date is parsed, everything else is NaT
to_datetime(v) ==
    IF IsTimestamp(v) THEN v
    ELSE IF \E d \in Days : v \in {strftime_mdY(d), MonthDayYear(d)}
         THEN Timestamp(CHOOSE d \in Days : v \in {strftime_mdY(d), MonthDayYear(d)})
         ELSE NaT

format_date_to_mdyyyy(v) ==
    LET x == to_datetime(v)
    IN IF x = NaT THEN <<>> ELSE MonthDayYear(x[2])

\* datetime.now(): the day of the run
VARIABLE today

today_date_formatted == strftime_mdY(today)

\* the literals of the code
sNew == <<"N","e","w">>
sUntouched == <<"U","n","t","o","u","c","h","e","d">>
sReopen == <<"R","e","o","p","e","n">>
sNeedsReview == <<"N","e","e","d","s"," ","R","e","v","i","e","w">>
sPISA == <<"P","I","S","A">>
sESM == <<"E","S","M">>
sPM7 == <<"P","M","7">>
sWorkon == <<"W","o","r","k","o","n">>
sSMD == <<"S","M","D">>
sJayapal == <<"J","a","y","a","p","a","l">>
sDivya == <<"D","i","v","y","a">>
lcNew == <<"n","e","w">>
lcCompleted == <<"c","o","m","p","l","e","t","e","d">>
lcNA == <<"n","/","a">>
lcReopened == <<"r","e","o","p","e","n","e","d">>

\* ------------------------------------------------------------- DataFrames
\* A sheet as read: the cleaned column names it has and its rows, each row
\* a function from those names to cells.
Frame(cols, rows) == [cols |-> cols, rows |-> rows]

\* row.get(col, default)
Get(fr, row, col, default) == IF col \in fr.cols THEN row[col] ELSE default

\* DataFrame.empty
IsEmpty(df) == df = <<>>

\* set(df['Barcode'].unique())
BarcodeSet(df) == {df[i].Barcode : i \in 1..Len(df)}

\* mutant of Concat: the appended rows come first
ConcatNewFirst(a, b) == b \o a

\* pd.concat([a, b], ignore_index=True)
Concat(a, b) == a \o b

sGoswamiSonali == <<"G","o","s","w","a","m","i"," ","S","o","n","a","l","i">>
sPatilJayapalGowd ==
    <<"P","a","t","i","l"," ","J","a","y","a","p","a","l"," ","G","o","w","d">>
sRanganathChilamakuri ==
    <<"R","a","n","g","a","n","a","t","h"," ",
      "C","h","i","l","a","m","a","k","u","r","i">>
sSridharDivya == <<"S","r","i","d","h","a","r"," ","D","i","v","y","a">>
sSunithaS == <<"S","u","n","i","t","h","a"," ","S">>
sVarunkumarN == <<"V","a","r","u","n","k","u","m","a","r"," ","N">>

allowed_pisa_users ==
    {sGoswamiSonali, sPatilJayapalGowd, sRanganathChilamakuri,
     sSridharDivya, sSunithaS, sVarunkumarN}

\* ------------------------------------------- Step 1: consolidate_data_process
\* mutant of df_pisa_filtered: no filter
df_pisa_unfiltered(df_pisa) == df_pisa.rows

\* the PISA rows kept by the assigned-user filter; all of them when the
\* column is absent
df_pisa_filtered(df_pisa) ==
    IF "assigned_user" \in df_pisa.cols
    THEN SelectSeq(df_pisa.rows, LAMBDA r : r["assigned_user"] \in allowed_pisa_users)
    ELSE df_pisa.rows

PisaRows(df_pisa) ==
    IF "barcode" \notin df_pisa.cols THEN <<>>
    ELSE LET f == df_pisa_filtered(df_pisa)
         IN [i \in 1..Len(f) |->
              [Barcode |-> Str(f[i]["barcode"]),
               Processor |-> None,
               Channel |-> sPISA,
               Category |-> None,
               CompanyCode |-> Str(Get(df_pisa, f[i], "company_code", <<>>)),
               Region |-> None,
               VendorNumber |-> Str(Get(df_pisa, f[i], "vendor_number", <<>>)),
               VendorName |-> Str(Get(df_pisa, f[i], "vendor_name", <<>>)),
               Status |-> Str(Get(df_pisa, f[i], "status", <<>>)),
               ReceivedDate |-> Get(df_pisa, f[i], "received_date", None),
               ReOpenDate |-> None,
               AllocationDate |-> today_date_formatted,
               ClarificationDate |-> None,
               CompletionDate |-> None,
               Requester |-> None,
               Remarks |-> None,
               Aging |-> None,
               Today |-> today_date_formatted]]

EsmRows(df_esm) ==
    IF "barcode" \notin df_esm.cols THEN <<>>
    ELSE [i \in 1..Len(df_esm.rows) |->
           LET row == df_esm.rows[i]
           IN [Barcode |-> Str(row["barcode"]),
               Processor |-> None,
               Channel |-> sESM,
               Category |-> None,
               CompanyCode |-> None,
               Region |-> None,
               VendorNumber |-> None,
               VendorName |-> None,
               Status |-> Str(Get(df_esm, row, "state", <<>>)),
               ReceivedDate |-> Get(df_esm, row, "received_date", None),
               ReOpenDate |->
                   IF Lower(Str(Get(df_esm, row, "state", <<>>))) = lcReopened
                   THEN Get(df_esm, row, "updated", None) ELSE None,
               AllocationDate |-> today_date_formatted,
               ClarificationDate |-> None,
               CompletionDate |->
                   IF IsNA(Get(df_esm, row, "closed", None)) THEN None
                   ELSE Get(df_esm, row, "closed", None),
               Requester |-> Str(Get(df_esm, row, "opened_by", <<>>)),
               Remarks |-> Str(Get(df_esm, row, "short_description", <<>>)),
               Aging |-> None,
               Today |-> today_date_formatted]]

Pm7Rows(df_pm7) ==
    IF "barcode" \notin df_pm7.cols THEN <<>>
    ELSE [i \in 1..Len(df_pm7.rows) |->
           LET row == df_pm7.rows[i]
           IN [Barcode |-> Str(row["barcode"]),
               Processor |-> None,
               Channel |-> sPM7,
               Category |-> None,
               CompanyCode |-> Str(Get(df_pm7, row, "company_code", <<>>)),
               Region |-> None,
               VendorNumber |-> Str(Get(df_pm7, row, "vendor_number", <<>>)),
               VendorName |-> Str(Get(df_pm7, row, "vendor_name", <<>>)),
               Status |-> Str(Get(df_pm7, row, "task", <<>>)),
               ReceivedDate |-> Get(df_pm7, row, "received_date", None),
               ReOpenDate |-> None,
               AllocationDate |-> today_date_formatted,
               ClarificationDate |-> None,
               CompletionDate |-> None,
               Requester |-> None,
               Remarks |-> None,
               Aging |-> None,
               Today |-> today_date_formatted]]

\* the date columns: pd.to_datetime(errors='coerce')
DatesToDatetime(r) ==
    [r EXCEPT !.ReceivedDate = to_datetime(@),
              !.ReOpenDate = to_datetime(@),
              !.AllocationDate = to_datetime(@),
              !.CompletionDate = to_datetime(@),
              !.ClarificationDate = to_datetime(@),
              !.Today = to_datetime(@)]

\* Barcode, Company code and Vendor number: astype(str).replace('nan', '')
IdentifierToStr(r) ==
    [r EXCEPT !.Barcode = ReplaceNan(Str(@)),
              !.CompanyCode = ReplaceNan(Str(@)),
              !.VendorNumber = ReplaceNan(Str(@))]

consolidate_data_process(df_pisa, df_esm, df_pm7) ==
    LET all_consolidated_rows == PisaRows(df_pisa) \o EsmRows(df_esm) \o Pm7Rows(df_pm7)
    IN [i \in 1..Len(all_consolidated_rows) |->
          IdentifierToStr(DatesToDatetime(all_consolidated_rows[i]))]

\* ----------------------- Step 2: process_central_file_step2_update_existing
\* mutant of StatusTransition: the status is compared without strip()
StatusTransitionUntrimmed(original_central_status) ==
    LET status_str == Lower(original_central_status)
    IN IF status_str = lcNew THEN sUntouched
       ELSE IF status_str = lcCompleted THEN sReopen
       ELSE IF status_str = lcNA THEN sNew
       ELSE original_central_status

\* mutant of StatusTransition: 'Untouched' goes back to 'New'
StatusTransitionCycling(original_central_status) ==
    LET status_str == Lower(Strip(original_central_status))
    IN IF status_str = lcNew THEN sUntouched
       ELSE IF status_str = lcCompleted THEN sReopen
       ELSE IF status_str = lcNA THEN sNew
       ELSE IF original_central_status = sUntouched THEN sNew
       ELSE original_central_status

\* mutant of StatusTransition: the result goes through the table once more
StatusTransitionChained(original_central_status) ==
    LET status_str == Lower(Strip(original_central_status))
    IN IF status_str = lcNew THEN sUntouched
       ELSE IF status_str = lcCompleted THEN sReopen
       ELSE IF status_str = lcNA THEN sUntouched
       ELSE original_central_status

\* the status of a central record whose barcode is in the PISA/ESM/PM7 set
StatusTransition(original_central_status) ==
    LET status_str == Lower(Strip(original_central_status))
    IN IF status_str = lcNew THEN sUntouched
       ELSE IF status_str = lcCompleted THEN sReopen
       ELSE IF status_str = lcNA THEN sNew
       ELSE original_central_status

\* mutant of transform_status_if_barcode_exists: a flagged record whose
\* barcode is in the rows again is taken up as 'Untouched'
transform_status_taking_up_flagged(central_barcode, status, barcode_set) ==
    IF central_barcode \in barcode_set
    THEN IF Str(status) = sNeedsReview THEN sUntouched ELSE StatusTransition(Str(status))
    ELSE Str(status)

transform_status_if_barcode_exists(central_barcode, status, barcode_set) ==
    IF central_barcode \in barcode_set
    THEN StatusTransition(Str(status))
    ELSE Str(status)

\* the central sheet has no 'barcode' column: Step 2 returns an error
Step2Fails(df_central) == "barcode" \notin df_central.cols

\* a column of the central sheet under its output name: fillna('') when
\* the sheet has it, None when it does not
CentralColumn(df_central, row, col) ==
    IF col \in df_central.cols THEN FillNa(row[col]) ELSE None

\* a date column of the central sheet: pd.to_datetime(errors='coerce') when
\* the sheet has it, None when it does not
CentralDate(df_central, row, col) ==
    IF col \in df_central.cols THEN to_datetime(row[col]) ELSE None

process_central_file_step2_update_existing(consolidated, df_central) ==
    LET barcode_set == IF IsEmpty(consolidated) THEN {} ELSE BarcodeSet(consolidated)
    IN [i \in 1..Len(df_central.rows) |->
         LET row == df_central.rows[i]
             barcode == ReplaceNan(Str(row["barcode"]))
             status == Get(df_central, row, "status", <<>>)
         IN [Barcode |-> barcode,
             Processor |-> CentralColumn(df_central, row, "processor"),
             Channel |-> CentralColumn(df_central, row, "channel"),
             Category |-> CentralColumn(df_central, row, "category"),
             CompanyCode |-> CentralColumn(df_central, row, "company_code"),
             Region |-> CentralColumn(df_central, row, "region"),
             VendorNumber |-> CentralColumn(df_central, row, "vendor_number"),
             VendorName |-> CentralColumn(df_central, row, "vendor_name"),
             Status |-> transform_status_if_barcode_exists(barcode, status, barcode_set),
             ReceivedDate |-> CentralDate(df_central, row, "received_date"),
             ReOpenDate |-> CentralDate(df_central, row, "re_open_date"),
             AllocationDate |-> CentralDate(df_central, row, "allocation_date"),
             ClarificationDate |-> CentralDate(df_central, row, "clarification_date"),
             CompletionDate |-> CentralDate(df_central, row, "completion_date"),
             Requester |-> CentralColumn(df_central, row, "requester"),
             Remarks |-> CentralColumn(df_central, row, "remarks"),
             Aging |-> CentralColumn(df_central, row, "aging"),
             Today |-> CentralDate(df_central, row, "today")]]

\* ------------- Step 3: process_central_file_step3_final_merge_and_needs_review
\* mutant of NewRecords: the new records keep the status of their channel
NewRecordsChannelStatus(consolidated, central_barcodes_set) ==
    LET to_add == BarcodeSet(consolidated) \ central_barcodes_set
    IN SelectSeq(consolidated, LAMBDA r : r.Barcode \in to_add)

\* 1. the PISA/ESM/PM7 rows whose barcode is not in the central file, as 'New'
NewRecords(consolidated, central_barcodes_set) ==
    LET to_add == BarcodeSet(consolidated) \ central_barcodes_set
        picked == SelectSeq(consolidated, LAMBDA r : r.Barcode \in to_add)
    IN [i \in 1..Len(picked) |-> [picked[i] EXCEPT !.Status = sNew]]

\* mutant of MarkNeedsReview: 'Completed' records are flagged too
MarkNeedsReviewAlsoCompleted(df, central_barcodes_set, consolidated_set) ==
    LET barcodes_for_needs_review == central_barcodes_set \ consolidated_set
    IN [i \in 1..Len(df) |->
         IF df[i].Barcode \in barcodes_for_needs_review
         THEN [df[i] EXCEPT !.Status = sNeedsReview]
         ELSE df[i]]

\* 2. 'Needs Review' for the central barcodes missing from PISA/ESM/PM7
MarkNeedsReview(df, central_barcodes_set, consolidated_set) ==
    LET barcodes_for_needs_review == central_barcodes_set \ consolidated_set
    IN [i \in 1..Len(df) |->
         IF /\ df[i].Barcode \in barcodes_for_needs_review
            /\ Lower(Strip(Str(df[i].Status))) # lcCompleted
         THEN [df[i] EXCEPT !.Status = sNeedsReview]
         ELSE df[i]]

\* mutant of WorkonRecords: a sheet without the 'key' column is mapped too
WorkonRecordsWithoutKey(df_workon) ==
    IF IsEmpty(df_workon.rows) THEN <<>>
    ELSE [i \in 1..Len(df_workon.rows) |->
           LET row == df_workon.rows[i]
           IN [Barcode |-> Str(Get(df_workon, row, "key", <<>>)),
               Processor |-> sJayapal,
               Channel |-> sWorkon,
               Category |-> Str(Get(df_workon, row, "action", <<>>)),
               CompanyCode |-> Str(Get(df_workon, row, "company_code", <<>>)),
               Region |-> Str(Get(df_workon, row, "country", <<>>)),
               VendorNumber |-> Str(Get(df_workon, row, "vendor_number", <<>>)),
               VendorName |-> Str(Get(df_workon, row, "name", <<>>)),
               Status |-> Str(Get(df_workon, row, "status", <<>>)),
               ReceivedDate |-> Get(df_workon, row, "updated", None),
               ReOpenDate |-> None,
               AllocationDate |-> today_date_formatted,
               ClarificationDate |-> None,
               CompletionDate |-> None,
               Requester |-> Str(Get(df_workon, row, "applicant", <<>>)),
               Remarks |-> Str(Get(df_workon, row, "summary", <<>>)),
               Aging |-> None,
               Today |-> today_date_formatted]]

\* 3. the Workon P71 rows, mapped one to one
WorkonRecords(df_workon) ==
    IF IsEmpty(df_workon.rows) \/ "key" \notin df_workon.cols THEN <<>>
    ELSE [i \in 1..Len(df_workon.rows) |->
           LET row == df_workon.rows[i]
           IN [Barcode |-> Str(Get(df_workon, row, "key", <<>>)),
               Processor |-> sJayapal,
               Channel |-> sWorkon,
               Category |-> Str(Get(df_workon, row, "action", <<>>)),
               CompanyCode |-> Str(Get(df_workon, row, "company_code", <<>>)),
               Region |-> Str(Get(df_workon, row, "country", <<>>)),
               VendorNumber |-> Str(Get(df_workon, row, "vendor_number", <<>>)),
               VendorName |-> Str(Get(df_workon, row, "name", <<>>)),
               Status |-> Str(Get(df_workon, row, "status", <<>>)),
               ReceivedDate |-> Get(df_workon, row, "updated", None),
               ReOpenDate |-> None,
               AllocationDate |-> today_date_formatted,
               ClarificationDate |-> None,
               CompletionDate |-> None,
               Requester |-> Str(Get(df_workon, row, "applicant", <<>>)),
               Remarks |-> Str(Get(df_workon, row, "summary", <<>>)),
               Aging |-> None,
               Today |-> today_date_formatted]]

\* mutant of RgbaRecords: the rows without a current assignee are left out
RgbaRecordsAssigned(df_rgba) ==
    IF IsEmpty(df_rgba.rows) \/ "key" \notin df_rgba.cols THEN <<>>
    ELSE LET kept == SelectSeq(df_rgba.rows,
                               LAMBDA r : Get(df_rgba, r, "current_assignee", NaN) # NaN)
         IN [i \in 1..Len(kept) |->
              [Barcode |-> Str(Get(df_rgba, kept[i], "key", <<>>)),
               Processor |-> sDivya,
               Channel |-> sWorkon,
               Category |-> None,
               CompanyCode |-> Str(Get(df_rgba, kept[i], "company_code", <<>>)),
               Region |-> None,
               VendorNumber |-> None,
               VendorName |-> None,
               Status |-> None,
               ReceivedDate |-> Get(df_rgba, kept[i], "updated", None),
               ReOpenDate |-> None,
               AllocationDate |-> today_date_formatted,
               ClarificationDate |-> None,
               CompletionDate |-> None,
               Requester |-> None,
               Remarks |-> Str(Get(df_rgba, kept[i], "summary", <<>>)),
               Aging |-> None,
               Today |-> today_date_formatted]]

\* 4. the RGBA rows, mapped one to one (the current_assignee filter is removed)
RgbaRecords(df_rgba) ==
    IF IsEmpty(df_rgba.rows) \/ "key" \notin df_rgba.cols THEN <<>>
    ELSE [i \in 1..Len(df_rgba.rows) |->
           LET row == df_rgba.rows[i]
           IN [Barcode |-> Str(Get(df_rgba, row, "key", <<>>)),
               Processor |-> sDivya,
               Channel |-> sWorkon,
               Category |-> None,
               CompanyCode |-> Str(Get(df_rgba, row, "company_code", <<>>)),
               Region |-> None,
               VendorNumber |-> None,
               VendorName |-> None,
               Status |-> None,
               ReceivedDate |-> Get(df_rgba, row, "updated", None),
               ReOpenDate |-> None,
               AllocationDate |-> today_date_formatted,
               ClarificationDate |-> None,
               CompletionDate |-> None,
               Requester |-> None,
               Remarks |-> Str(Get(df_rgba, row, "summary", <<>>)),
               Aging |-> None,
               Today |-> today_date_formatted]]

\* 5. the SMD rows, mapped one to one; they have no barcode
SmdRecords(df_smd) ==
    [i \in 1..Len(df_smd.rows) |->
       LET row == df_smd.rows[i]
       IN [Barcode |-> None,
           Processor |-> None,
           Channel |-> sSMD,
           Category |-> None,
           CompanyCode |-> Str(Get(df_smd, row, "ekorg", <<>>)),
           Region |-> Str(Get(df_smd, row, "material_field", <<>>)),
           VendorNumber |-> Str(Get(df_smd, row, "pmd-sno", <<>>)),
           VendorName |-> Str(Get(df_smd, row, "supplier_name", <<>>)),
           Status |-> None,
           ReceivedDate |-> Get(df_smd, row, "request_date", None),
           ReOpenDate |-> None,
           AllocationDate |-> today_date_formatted,
           ClarificationDate |-> None,
           CompletionDate |-> None,
           Requester |-> Str(Get(df_smd, row, "requested_by", <<>>)),
           Remarks |-> None,
           Aging |-> None,
           Today |-> today_date_formatted]]

\* mutant of MergeAll: the Workon and RGBA keys also save a central record
\* from 'Needs Review'
MergeAllEveryChannel(consolidated, updated, df_workon, df_rgba, df_smd) ==
    LET central_barcodes_set == {Str(b) : b \in BarcodeSet(updated)}
        consolidated_set ==
            (IF IsEmpty(consolidated) THEN {}
             ELSE {Str(b) : b \in BarcodeSet(consolidated)})
              \cup BarcodeSet(WorkonRecords(df_workon))
              \cup BarcodeSet(RgbaRecords(df_rgba))
        with_new == Concat(updated, NewRecords(consolidated, central_barcodes_set))
        reviewed == MarkNeedsReview(with_new, central_barcodes_set, consolidated_set)
    IN Concat(Concat(Concat(reviewed, WorkonRecords(df_workon)),
                     RgbaRecords(df_rgba)),
              SmdRecords(df_smd))

\* steps 1 to 5: the central file with every new record appended
MergeAll(consolidated, updated, df_workon, df_rgba, df_smd) ==
    LET central_barcodes_set == {Str(b) : b \in BarcodeSet(updated)}
        consolidated_set ==
            IF IsEmpty(consolidated) THEN {}
            ELSE {Str(b) : b \in BarcodeSet(consolidated)}
        with_new == Concat(updated, NewRecords(consolidated, central_barcodes_set))
        reviewed == MarkNeedsReview(with_new, central_barcodes_set, consolidated_set)
    IN Concat(Concat(Concat(reviewed, WorkonRecords(df_workon)),
                     RgbaRecords(df_rgba)),
              SmdRecords(df_smd))

\* 6. blank Company code of a PM7 record: the first 4 characters of the
\*    barcode, '' when the barcode has fewer than 4
IsPm7BlankCompanyCode(r) ==
    /\ r.Channel = sPM7
    /\ Strip(ReplaceNan(Str(r.CompanyCode))) = <<>>

\* mutant of Pm7CodeFromBarcode: the slice is taken whatever the length
Pm7CodeAnyLength(barcode) == Slice(Strip(Str(barcode)), 4)

Pm7CodeFromBarcode(barcode) ==
    LET x == Strip(Str(barcode))
    IN IF Len(x) >= 4 THEN Slice(x, 4) ELSE <<>>

Pm7CompanyCode(df) ==
    [i \in 1..Len(df) |->
       IF IsPm7BlankCompanyCode(df[i])
       THEN [df[i] EXCEPT !.CompanyCode = Pm7CodeFromBarcode(df[i].Barcode)]
       ELSE df[i]]

\* 7. region mapping.  The mapping sheet is usable when it has rows and
\*    both columns.
MappingUsable(region_mapping_df) ==
    /\ ~IsEmpty(region_mapping_df.rows)
    /\ "r3_coco" \in region_mapping_df.cols
    /\ "region" \in region_mapping_df.cols

CocoKey(row) == Upper(Strip(Str(row["r3_coco"])))

\* region_map: the keys are the first 4 characters of the non-empty
\* r3_coco values; a later row replaces an earlier one with the same key
RegionMapKeys(rows) ==
    {Slice(CocoKey(rows[i]), 4) : i \in {j \in 1..Len(rows) : CocoKey(rows[j]) # <<>>}}

RegionMapValue(rows, key) ==
    LET hits == {j \in 1..Len(rows) :
                   CocoKey(rows[j]) # <<>> /\ Slice(CocoKey(rows[j]), 4) = key}
        last == CHOOSE j \in hits : \A k \in hits : k <= j
    IN Strip(Str(rows[last]["region"]))

\* mutant of CompanyCodeLookup: the company code is looked up as written
CompanyCodeLookupCaseSensitive(company_code) == Slice(Strip(Str(company_code)), 4)

CompanyCodeLookup(company_code) == Slice(Upper(Strip(Str(company_code))), 4)

\* Region.replace('', pd.NA).fillna(new_mapped_regions).astype(str).replace('nan', '')
MappedRegion(r, rows) ==
    LET lookup == CompanyCodeLookup(r.CompanyCode)
        new_mapped_region ==
            IF lookup \in RegionMapKeys(rows) THEN RegionMapValue(rows, lookup) ELSE NaN
        blanked == IF r.Region = <<>> THEN NaN ELSE r.Region
        filled == IF IsNA(blanked) THEN new_mapped_region ELSE blanked
    IN ReplaceNan(Str(filled))

RegionMapping(df, region_mapping_df) ==
    [i \in 1..Len(df) |->
       IF MappingUsable(region_mapping_df)
       THEN [df[i] EXCEPT !.Region = MappedRegion(df[i], region_mapping_df.rows)]
       ELSE [df[i] EXCEPT !.Region = FillNa(@)]]

\* 8. Aging: the days from Allocation Date to Today, '' when one of them is
\*    no date.  The day counts are floats ('2.0') when some record of the
\*    file has none, and ints ('2') when every record has one.
HasAging(r) == to_datetime(r.Today) # NaT /\ to_datetime(r.AllocationDate) # NaT

AgingDays(r) == to_datetime(r.Today)[2] - to_datetime(r.AllocationDate)[2]

\* mutant of CalculateAging: the days are counted up to the day of the run
CalculateAgingToRunDate(df) ==
    LET hasna == \E j \in 1..Len(df) : ~HasAging(df[j])
    IN [i \in 1..Len(df) |->
         [df[i] EXCEPT !.Aging =
            IF ~HasAging(df[i]) THEN <<>>
            ELSE IF hasna THEN FloatStr(today - to_datetime(df[i].AllocationDate)[2])
            ELSE IntStr(today - to_datetime(df[i].AllocationDate)[2])]]

CalculateAging(df) ==
    LET hasna == \E j \in 1..Len(df) : ~HasAging(df[j])
    IN [i \in 1..Len(df) |->
         [df[i] EXCEPT !.Aging =
            IF ~HasAging(df[i]) THEN <<>>
            ELSE IF hasna THEN FloatStr(AgingDays(df[i]))
            ELSE IntStr(AgingDays(df[i]))]]

\* 9. final formatting: the date columns as month/day/year, the text
\*    columns with fillna('')
FinalFormat(df) ==
    [i \in 1..Len(df) |->
       [Barcode |-> FillNa(df[i].Barcode),
        Processor |-> FillNa(df[i].Processor),
        Channel |-> FillNa(df[i].Channel),
        Category |-> FillNa(df[i].Category),
        CompanyCode |-> FillNa(df[i].CompanyCode),
        Region |-> FillNa(df[i].Region),
        VendorNumber |-> FillNa(df[i].VendorNumber),
        VendorName |-> FillNa(df[i].VendorName),
        Status |-> FillNa(df[i].Status),
        ReceivedDate |-> format_date_to_mdyyyy(df[i].ReceivedDate),
        ReOpenDate |-> format_date_to_mdyyyy(df[i].ReOpenDate),
        AllocationDate |-> format_date_to_mdyyyy(df[i].AllocationDate),
        ClarificationDate |-> format_date_to_mdyyyy(df[i].ClarificationDate),
        CompletionDate |-> format_date_to_mdyyyy(df[i].CompletionDate),
        Requester |-> FillNa(df[i].Requester),
        Remarks |-> FillNa(df[i].Remarks),
        Aging |-> FillNa(df[i].Aging),
        Today |-> format_date_to_mdyyyy(df[i].Today)]]

\* mutant of Enrich: the region mapping runs before the company-code step
EnrichRegionFirst(merged_df, region_mapping_df) ==
    FinalFormat(CalculateAging(
        Pm7CompanyCode(RegionMapping(merged_df, region_mapping_df))))

\* steps 6 to 9 on the merged central file
Enrich(merged_df, region_mapping_df) ==
    FinalFormat(CalculateAging(
        RegionMapping(Pm7CompanyCode(merged_df), region_mapping_df)))

\* ------------------------------------------- PMD lookup: process_pmd_lookup_core
sHold == <<"H","o","l","d">>
lcHold == <<"h","o","l","d">>

excluded_countries ==
    {<<"c","n">>, <<"i","d">>, <<"t","w">>, <<"h","k">>, <<"j","p">>, <<"k","r">>,
     <<"m","y">>, <<"p","h">>, <<"s","g">>, <<"t","h">>, <<"v","n">>}

\* mutant of df_pmd_dump_filtered: without the column no row is kept
df_pmd_dump_filtered_closed(df_pmd_dump) ==
    IF "country" \in df_pmd_dump.cols
    THEN SelectSeq(df_pmd_dump.rows,
                   LAMBDA r : Lower(Strip(Str(r["country"]))) \notin excluded_countries)
    ELSE <<>>

\* Step 2: the dump rows whose country is not excluded; all of them when the
\* column is absent
df_pmd_dump_filtered(df_pmd_dump) ==
    IF "country" \in df_pmd_dump.cols
    THEN SelectSeq(df_pmd_dump.rows,
                   LAMBDA r : Lower(Strip(Str(r["country"]))) \notin excluded_countries)
    ELSE df_pmd_dump.rows

\* a required column is missing in one of the two files
PmdLookupFails(df_central_pmd, df_pmd_dump) ==
    \/ \E col \in {"valid_from", "supplier_name", "status", "assigned"} :
         col \notin df_central_pmd.cols
    \/ \E col \in {"valid_from", "supplier_name"} : col \notin df_pmd_dump.cols

\* pd.to_datetime(...).dt.strftime('%Y-%m-%d').fillna('')
valid_from_key(v) ==
    LET x == to_datetime(v)
    IN IF x = NaT THEN <<>>
       ELSE <<"2","0","2","4","-","0","1","-">>
              \o (IF x[2] < 10 THEN <<"0">> ELSE <<>>) \o Digits(x[2])

supplier_name_key(v) == Lower(Strip(Str(v)))

comp_key(row) ==
    valid_from_key(row["valid_from"]) \o <<"_","_">> \o supplier_name_key(row["supplier_name"])

\* mutant of central_hold_lookup: the last record of every key is kept
central_hold_lookup_keep_last(df_central_pmd) ==
    LET rows == df_central_pmd.rows
        hold == {i \in 1..Len(rows) : Lower(Strip(Str(rows[i]["status"]))) = lcHold}
    IN {i \in hold : \A j \in hold : comp_key(rows[j]) = comp_key(rows[i]) => j <= i}

\* the 'hold' records of the central file, the first one of every key
central_hold_lookup(df_central_pmd) ==
    LET rows == df_central_pmd.rows
        hold == {i \in 1..Len(rows) : Lower(Strip(Str(rows[i]["status"]))) = lcHold}
    IN {i \in hold : \A j \in hold : comp_key(rows[j]) = comp_key(rows[i]) => i <= j}

\* the core lookup and the final formatting: one output row per dump row
PmdLookup(df_central_pmd, df_pmd_dump) ==
    LET dump == df_pmd_dump_filtered(df_pmd_dump)
        lookup == central_hold_lookup(df_central_pmd)
    IN [i \in 1..Len(dump) |->
         LET hits == {c \in lookup : comp_key(df_central_pmd.rows[c]) = comp_key(dump[i])}
         IN [ValidFrom |-> format_date_to_mdyyyy(dump[i]["valid_from"]),
             SupplierName |-> FillNa(dump[i]["supplier_name"]),
             Country |-> IF "country" \in df_pmd_dump.cols
                         THEN FillNa(dump[i]["country"]) ELSE <<>>,
             Status |-> IF hits = {} THEN sNew ELSE sHold,
             Assigned |->
                 IF hits = {} THEN <<>>
                 ELSE Strip(Str(df_central_pmd.rows[CHOOSE c \in hits : TRUE]["assigned"]))]]

\* ------------------------------------------------------------------- state
VARIABLES
    pmd_pc,            \* the PMD lookup: "ready", "done", "error"
    df_central_pmd,    \* the PMD central file
    df_pmd_dump,       \* the PMD dump file
    df_output,         \* the rows of the PMD lookup result
    pmd_lookup_output_path,   \* session['pmd_lookup_output_path']
    pc,                \* "ready": files uploaded; "done": output written; "error"
    df_pisa, df_esm, df_pm7, df_workon, df_rgba, df_smd,   \* the extracts
    df_central,        \* the central registry file
    region_mapping_df, \* company_code_region_mapping.xlsx
    df_consolidated,   \* Step 1's result
    df_updated,        \* Step 2's result (df_central_updated_existing)
    df_merged,         \* Step 3 after the SMD append, before steps 6 to 9
    df_final_central,  \* the rows of the output file
    request_files,     \* the uploaded files: "ok", or what is wrong with them
    to_excel_raises,   \* whether the output file can not be written
    result,            \* what process_b_segment_allocation_core returned
    output_file,       \* the output file on disk: "absent", "partial", "complete"
    central_output_path,  \* session['central_output_path']
    runs,              \* the B-segment runs of the session that succeeded
    temp_dir,          \* session['temp_dir']
    disk,              \* the output files on disk, each with its directory
    download_response, \* what download_file answered last
    columns,           \* df.columns of a sheet as read
    new_columns        \* df.columns as clean_column_names left them

vars == <<today, pc, df_pisa, df_esm, df_pm7, df_workon, df_rgba, df_smd, df_central,
          region_mapping_df, df_consolidated, df_updated, df_merged,
          df_final_central, request_files, to_excel_raises, result, output_file,
          central_output_path, pmd_pc, df_central_pmd, df_pmd_dump, df_output,
          pmd_lookup_output_path, runs, temp_dir, disk, download_response,
          columns, new_columns>>

pmd == <<pmd_pc, df_central_pmd, df_pmd_dump, df_output, pmd_lookup_output_path>>
allocation ==
    <<today, pc, df_pisa, df_esm, df_pm7, df_workon, df_rgba, df_smd, df_central,
      region_mapping_df, df_consolidated, df_updated, df_merged,
      df_final_central, request_files, to_excel_raises, result, output_file,
      central_output_path, runs>>

cleaning == <<columns, new_columns>>

request == <<request_files, to_excel_raises>>

\* no path: None, and session.pop
NoPath == "<none>"
\* os.path.join(temp_dir, 'CentralFile_FinalOutput_<now>.xlsx'), and the path a
\* run before this one left in the session
final_central_output_file_path == "CentralFile_FinalOutput_now.xlsx"
PreviousPath == "CentralFile_FinalOutput_before.xlsx"

\* the directories of tempfile.mkdtemp: one per request, and the one a run
\* before this session's requests left in the session
NoDir == <<"<none>", 0>>
PreviousDir == <<"b_segment", 0>>
AllocationDir == <<"b_segment", runs + 1>>
PmdDir == <<"pmd", 1>>
pmd_output_file_path == "PMD_Lookup_Result_now.xlsx"

\* what download_file answers: nothing asked yet, the file sent, the
\* redirect to the index page
NoResponse == [send_file |-> NoDir, download_name |-> NoPath]
SendFile(dir, filename) == [send_file |-> dir, download_name |-> filename]
RedirectToIndex == [send_file |-> NoDir, download_name |-> "<redirect>"]

NoResult == [success |-> FALSE, message |-> "", output_path |-> NoPath]
Failure(message) == [success |-> FALSE, message |-> message, output_path |-> NoPath]

inputs == <<today, df_pisa, df_esm, df_pm7, df_workon, df_rgba, df_smd, df_central,
            region_mapping_df>>

\* ----------------------------------------------------------------- actions
\* process_b_segment_allocation_core, the run that succeeds: Step 1, Step 2
\* and Step 3, up to the output file
ProcessBSegmentAllocation ==
    /\ pc = "ready"
    /\ request_files = "ok"
    /\ ~Step2Fails(df_central)
    /\ ~to_excel_raises
    /\ LET consolidated == consolidate_data_process(df_pisa, df_esm, df_pm7)
           updated == process_central_file_step2_update_existing(consolidated, df_central)
           merged == MergeAll(consolidated, updated, df_workon, df_rgba, df_smd)
       IN /\ df_consolidated' = consolidated
          /\ df_updated' = updated
          /\ df_merged' = merged
          /\ df_final_central' = Enrich(merged, region_mapping_df)
    /\ pc' = "done"
    /\ output_file' = "complete"
    /\ central_output_path' = final_central_output_file_path
    /\ result' = [success |-> TRUE, message |-> "Processing complete",
                  output_path |-> final_central_output_file_path]
    /\ runs' = runs + 1
    /\ temp_dir' = AllocationDir
    /\ disk' = disk \cup {<<AllocationDir, final_central_output_file_path>>}
    /\ UNCHANGED <<inputs, request, pmd, download_response, cleaning>>

\* mutant of RouteFails: the path of an earlier run stays in the session
RouteFailsKeepingPath(message) ==
    /\ pc' = "error"
    /\ central_output_path' = central_output_path
    /\ result' = Failure(message)
    /\ temp_dir' = AllocationDir
    /\ UNCHANGED <<runs, disk, download_response, cleaning>>

\* route_process_b_segment_allocation when the core returns an error: the
\* session has the new directory, its path was popped before the core ran,
\* and no path is returned
RouteFails(message) ==
    /\ pc' = "error"
    /\ central_output_path' = NoPath
    /\ result' = Failure(message)
    /\ temp_dir' = AllocationDir
    /\ UNCHANGED <<runs, disk, download_response, cleaning>>

\* a required file is missing or is no .xls/.xlsx file: nothing is read
ProcessFailsOnUpload ==
    /\ pc = "ready"
    /\ request_files \in {"missing", "invalid"}
    /\ RouteFails(IF request_files = "missing" THEN "Missing required file"
                  ELSE "Invalid file type")
    /\ UNCHANGED <<inputs, request, df_consolidated, df_updated, df_merged,
                   df_final_central, output_file, pmd>>

\* pd.read_excel raises on one of the extracts
ProcessFailsOnLoad ==
    /\ pc = "ready"
    /\ request_files = "unreadable"
    /\ RouteFails("Error loading one or more input Excel files")
    /\ UNCHANGED <<inputs, request, df_consolidated, df_updated, df_merged,
                   df_final_central, output_file, pmd>>

\* process_b_segment_allocation_core when Step 2 returns an error: no output
ProcessFailsInStep2 ==
    /\ pc = "ready"
    /\ request_files = "ok"
    /\ Step2Fails(df_central)
    /\ df_consolidated' = consolidate_data_process(df_pisa, df_esm, df_pm7)
    /\ RouteFails("Central File Processing (Step 2) Error")
    /\ UNCHANGED <<inputs, request, df_updated, df_merged, df_final_central,
                   output_file, pmd>>

\* process_b_segment_allocation_core when to_excel raises in Step 3: the
\* frames are computed, the file is not there or is not whole
ProcessFailsInStep3 ==
    /\ pc = "ready"
    /\ request_files = "ok"
    /\ ~Step2Fails(df_central)
    /\ to_excel_raises
    /\ LET consolidated == consolidate_data_process(df_pisa, df_esm, df_pm7)
           updated == process_central_file_step2_update_existing(consolidated, df_central)
       IN /\ df_consolidated' = consolidated
          /\ df_updated' = updated
          /\ df_merged' = MergeAll(consolidated, updated, df_workon, df_rgba, df_smd)
    /\ output_file' \in {"absent", "partial"}
    /\ RouteFails("Central File Processing (Step 3) Error")
    /\ UNCHANGED <<inputs, request, df_final_central, pmd>>

Next ==
    \/ ProcessBSegmentAllocation
    \/ ProcessFailsOnUpload
    \/ ProcessFailsOnLoad
    \/ ProcessFailsInStep2
    \/ ProcessFailsInStep3

\* process_pmd_lookup_core, the lookup that succeeds
ProcessPmdLookup ==
    /\ pmd_pc = "ready"
    /\ ~PmdLookupFails(df_central_pmd, df_pmd_dump)
    /\ df_output' = PmdLookup(df_central_pmd, df_pmd_dump)
    /\ pmd_pc' = "done"
    /\ pmd_lookup_output_path' = pmd_output_file_path
    /\ temp_dir' = PmdDir
    /\ disk' = disk \cup {<<PmdDir, pmd_output_file_path>>}
    /\ UNCHANGED <<allocation, df_central_pmd, df_pmd_dump, download_response,
                   cleaning>>

\* process_pmd_lookup_core when a required column is missing
ProcessPmdLookupFails ==
    /\ pmd_pc = "ready"
    /\ PmdLookupFails(df_central_pmd, df_pmd_dump)
    /\ pmd_pc' = "error"
    /\ pmd_lookup_output_path' = NoPath
    /\ temp_dir' = PmdDir
    /\ UNCHANGED <<allocation, df_central_pmd, df_pmd_dump, df_output, disk,
                   download_response, cleaning>>

\* both features of the application
NextBoth == Next \/ ProcessPmdLookup \/ ProcessPmdLookupFails

\* ------------------------------------------------------------------ inputs
SeqsUpTo(S, n) == UNION {[1..k -> S] : k \in 0..n}

\* the rows of one channel in a list of tagged rows
RowsOf(feed, ch) ==
    LET picked == SelectSeq(feed, LAMBDA e : e.ch = ch)
    IN [i \in 1..Len(picked) |-> picked[i].row]

PisaCols == {"barcode", "assigned_user", "status", "company_code", "vendor_name",
             "received_date"}
EsmCols == {"barcode", "state"}
Pm7Cols == {"barcode", "task", "company_code"}
WorkonCols == {"key", "status", "country", "company_code"}
RgbaCols == {"key", "company_code", "current_assignee"}
SmdCols == {"ekorg"}
CentralCols == {"barcode", "processor", "channel", "category", "company_code",
                "region", "vendor_number", "vendor_name", "status",
                "received_date", "re_open_date", "allocation_date",
                "clarification_date", "completion_date", "requester", "remarks",
                "aging", "today"}
MappingCols == {"r3_coco", "region"}

\* the days on which the run takes place
RunDays == {9}

\* a sheet of an extract; a column named in drop is not in the sheet
NoDrop == <<"", "">>
SheetOf(ch, cols, feed, drop) ==
    LET kept == IF drop[1] = ch THEN cols \ {drop[2]} ELSE cols
        rows == RowsOf(feed, ch)
    IN Frame(kept, [i \in 1..Len(rows) |-> [c \in kept |-> rows[i][c]]])

\* the sheets of a request: a central file of Centrals, the extracts cut
\* from a list of Feeds, without one of the columns of Drops, a mapping
\* sheet of Mappings
InitSheets(Centrals, Feeds, Mappings, Drops) ==
    /\ pc = "ready"
    /\ today \in RunDays
    /\ df_central \in Centrals
    /\ \E feed \in Feeds, drop \in Drops :
         /\ df_pisa = SheetOf("PISA", PisaCols, feed, drop)
         /\ df_esm = SheetOf("ESM", EsmCols, feed, drop)
         /\ df_pm7 = SheetOf("PM7", Pm7Cols, feed, drop)
         /\ df_workon = SheetOf("Workon", WorkonCols, feed, drop)
         /\ df_rgba = SheetOf("RGBA", RgbaCols, feed, drop)
         /\ df_smd = SheetOf("SMD", SmdCols, feed, drop)
    /\ region_mapping_df \in Mappings
    /\ df_consolidated = <<>>
    /\ df_updated = <<>>
    /\ df_merged = <<>>
    /\ df_final_central = <<>>
    /\ result = NoResult
    /\ output_file = "absent"
    /\ runs = 0
    /\ download_response = NoResponse
    /\ columns = <<>>
    /\ new_columns = <<>>

InitFrames(Centrals, Feeds, Mappings) == InitSheets(Centrals, Feeds, Mappings, {NoDrop})

\* the two files of a PMD lookup request
InitPmd(PmdCentrals, Dumps) ==
    /\ pmd_pc = "ready"
    /\ df_central_pmd \in PmdCentrals
    /\ df_pmd_dump \in Dumps
    /\ df_output = <<>>
    /\ pmd_lookup_output_path = NoPath

PmdCentralCols == {"valid_from", "supplier_name", "status", "assigned"}
PmdDumpCols == {"valid_from", "supplier_name", "country"}

\* no PMD lookup is asked for
NoPmd == InitPmd({Frame(PmdCentralCols, <<>>)}, {Frame(PmdDumpCols, <<>>)})

\* what can be wrong with a request: a required file missing, a file of
\* another type, a file that is no workbook, an output that can not be
\* written
RequestFlaws ==
    {<<"missing", FALSE>>, <<"invalid", FALSE>>, <<"unreadable", FALSE>>,
     <<"ok", TRUE>>}

\* the state after the upload of the files: a request whose files are in
\* order, in a session without an output path; and the flawed requests, with
\* an empty central file and empty extracts, in a session with or without
\* the output path of an earlier run
\* the session before the request: empty, or with the directory, the path
\* and the output file of an earlier run
SessionWith(path) ==
    /\ central_output_path = path
    /\ temp_dir = IF path = NoPath THEN NoDir ELSE PreviousDir
    /\ disk = IF path = NoPath THEN {} ELSE {<<PreviousDir, path>>}

RequestInOrder ==
    /\ request_files = "ok"
    /\ to_excel_raises = FALSE
    /\ SessionWith(NoPath)

FlawedRequests ==
    /\ InitFrames({Frame(CentralCols, <<>>)}, {<<>>}, {Frame(MappingCols, <<>>)})
    /\ \E flaw \in RequestFlaws :
         request_files = flaw[1] /\ to_excel_raises = flaw[2]
    /\ \E path \in {NoPath, PreviousPath} : SessionWith(path)

InitRequests(Centrals, Feeds, Mappings) ==
    \/ InitFrames(Centrals, Feeds, Mappings) /\ RequestInOrder
    \/ FlawedRequests

InitWith(Centrals, Feeds, Mappings) == InitRequests(Centrals, Feeds, Mappings) /\ NoPmd

\* texts of the input sheets
k1001 == <<"1","0","0","1">>
k1002 == <<"1","0","0","2">>
tOpen == <<"O","p","e","n">>
tOtherUser == <<"D","o","e"," ","J","o","h","n">>
tDE01 == <<"D","E","0","1">>
tEMEA == <<"E","M","E","A">>
tCompleted == <<"C","o","m","p","l","e","t","e","d">>
tNewPadded == <<" ","N","E","W"," ">>
tCompletedPadded == <<" ","c","o","m","p","l","e","t","e","d">>
tNA == <<"N","/","A">>
tna == <<"n","a">>
tnone == <<"n","o","n","e">>

\* the statuses a central record comes with
CentralStatuses ==
    {sNew, tNewPadded, tCompleted, tCompletedPadded, tNA, <<>>, tna, tnone,
     sUntouched}

tAcme == <<"A","c","m","e">>
tOtherVendor == <<"O","t","h","e","r">>
tInvoice == <<"I","n","v","o","i","c","e">>
tSmith == <<"S","m","i","t","h">>
tCheck == <<"c","h","e","c","k">>
tTbd == <<"t","b","d">>

\* a row of the central sheet with its dates and its Aging
CentralRecord(barcode, status, channel, company_code, region, received_date, allocation_date, today_cell, aging) ==
    [barcode |-> barcode, processor |-> sJayapal, channel |-> channel,
     category |-> tInvoice, company_code |-> company_code, region |-> region,
     vendor_number |-> k1002, vendor_name |-> tAcme, status |-> status,
     received_date |-> received_date, re_open_date |-> <<>>,
     allocation_date |-> allocation_date, clarification_date |-> <<>>,
     completion_date |-> <<>>, requester |-> tSmith, remarks |-> tCheck,
     aging |-> aging, today |-> today_cell]

CentralRow(barcode, status, channel, company_code, region) ==
    CentralRecord(barcode, status, channel, company_code, region,
                  Timestamp(4), Timestamp(5), Timestamp(7), <<"2">>)

\* a central sheet without the 'barcode' column
CentralNoBarcode == Frame({"status"}, <<[status |-> sNew]>>)

ReconcileCentralRows ==
    {CentralRow(b, st, sPISA, tDE01, tEMEA) :
        b \in {<<>>, k1001}, st \in CentralStatuses}

PisaRow(barcode, user) ==
    [ch |-> "PISA",
     row |-> [barcode |-> barcode, assigned_user |-> user,
              status |-> tOpen, company_code |-> tDE01,
              vendor_name |-> tOtherVendor, received_date |-> Timestamp(8)]]
EsmRow(barcode) == [ch |-> "ESM", row |-> [barcode |-> barcode, state |-> tOpen]]
Pm7Row(barcode, company_code) ==
    [ch |-> "PM7",
     row |-> [barcode |-> barcode, task |-> tOpen, company_code |-> company_code]]
WorkonRow(key, status, country, company_code) ==
    [ch |-> "Workon",
     row |-> [key |-> key, status |-> status, country |-> country,
              company_code |-> company_code]]
tTeamB == <<"T","e","a","m"," ","B">>

RgbaRowOf(key, company_code, current_assignee) ==
    [ch |-> "RGBA",
     row |-> [key |-> key, company_code |-> company_code,
              current_assignee |-> current_assignee]]
RgbaRow(key, company_code) == RgbaRowOf(key, company_code, tTeamB)
SmdRow == [ch |-> "SMD", row |-> [ekorg |-> tDE01]]

ReconcileFeedRows ==
    {PisaRow(k1001, sSunithaS), PisaRow(k1001, tOtherUser),
     PisaRow(NaN, sSunithaS), PisaRow(k1002, sSunithaS),
     EsmRow(k1001), EsmRow(k1002),
     Pm7Row(k1002, tDE01), Pm7Row(NaN, tDE01),
     WorkonRow(k1001, tOpen, tEMEA, tDE01), WorkonRow(k1002, NaN, tEMEA, tDE01),
     WorkonRow(NaN, tOpen, tEMEA, tDE01),
     RgbaRow(k1001, tDE01), RgbaRow(k1002, tDE01),
     SmdRow}

NoMapping == Frame(MappingCols, <<>>)

\* reconciliation: central statuses and barcodes against every channel
Init ==
    InitWith({Frame(CentralCols, rows) :
                 rows \in SeqsUpTo(ReconcileCentralRows, MaxReg)}
               \cup {CentralNoBarcode},
             SeqsUpTo(ReconcileFeedRows, MaxRows),
             {NoMapping})

Spec == Init /\ [][Next]_vars

\* ------------------------------------------------------- the sets R, T and E
\* The key of an extract row: the text of its key cell, '' for an empty cell.
KeyOf(cell) == IF cell = NaN THEN <<>> ELSE cell

\* the keys of a sheet's rows under its key column; none without the column
SheetKeys(cols, rows, keycol) ==
    IF keycol \in cols THEN {KeyOf(rows[i][keycol]) : i \in 1..Len(rows)} ELSE {}

\* T: the keys of the filtered PISA rows and of the ESM and PM7 rows
TriggerKeys ==
    SheetKeys(df_pisa.cols, df_pisa_filtered(df_pisa), "barcode")
      \cup SheetKeys(df_esm.cols, df_esm.rows, "barcode")
      \cup SheetKeys(df_pm7.cols, df_pm7.rows, "barcode")

\* E: the keys of every channel's rows
ExtractKeys ==
    TriggerKeys \cup SheetKeys(df_workon.cols, df_workon.rows, "key")
                \cup SheetKeys(df_rgba.cols, df_rgba.rows, "key")

\* the records of the central file, by position, and their keys (R)
NReg == Len(df_central.rows)
RegKey(i) == df_central.rows[i]["barcode"]
RegStatus(i) == df_central.rows[i]["status"]
RegistryKeys == {RegKey(i) : i \in 1..NReg}

\* trimmed and case-folded, as statuses are compared
Norm(s) == Lower(Strip(s))

Done == pc = "done"

\* ------------------------------------------------------------------ claims
\* C1: status-transition table.  For every central record whose key is in T
\* the output Status is decided by the prior Status, compared trimmed and
\* case-insensitively: 'new' gives 'Untouched', 'completed' gives 'Reopen',
\* 'n/a' gives 'New', every other value (also '', 'na', 'none') is kept as
\* it was written.
C1_StatusTransitionTable ==
    Done =>
      \A i \in 1..NReg :
        RegKey(i) \in TriggerKeys =>
          df_final_central[i].Status =
            CASE Norm(RegStatus(i)) = <<"n","e","w">> -> sUntouched
              [] Norm(RegStatus(i)) = <<"c","o","m","p","l","e","t","e","d">> -> sReopen
              [] Norm(RegStatus(i)) = <<"n","/","a">> -> sNew
              [] OTHER -> RegStatus(i)

\* C1 witness: a 'Completed' record whose key is in T was reopened
C1_Witness ==
    /\ Done
    /\ \E i \in 1..NReg :
         /\ RegKey(i) = k1001 /\ k1001 \in TriggerKeys
         /\ RegStatus(i) = tCompletedPadded
         /\ df_final_central[i].Status = sReopen

\* C2: Needs-Review invariant.  For every central record whose key is in no
\* channel's extract the output Status is 'Needs Review' when the prior
\* Status (trimmed, case-insensitive) is not 'completed', and the prior
\* Status when it is.
C2_NeedsReview ==
    Done =>
      \A i \in 1..NReg :
        RegKey(i) \notin ExtractKeys =>
          df_final_central[i].Status =
            IF Norm(RegStatus(i)) = <<"c","o","m","p","l","e","t","e","d">>
            THEN RegStatus(i) ELSE sNeedsReview

\* C2 witness: an 'Untouched' record absent from every extract is flagged,
\* while extracts held other keys
C2_Witness ==
    /\ Done
    /\ ExtractKeys # {}
    /\ \E i \in 1..NReg :
         /\ RegKey(i) \notin ExtractKeys
         /\ RegStatus(i) = sUntouched
         /\ df_final_central[i].Status = sNeedsReview

\* C3, as claimed: a central record whose key is absent from PISA/ESM/PM7
\* but present in the Workon or RGBA extract keeps its Status.
C3_Original ==
    Done =>
      \A i \in 1..NReg :
        RegKey(i) \in ExtractKeys \ TriggerKeys =>
          df_final_central[i].Status = RegStatus(i)

\* C3, amended: 'Needs Review' is decided by the PISA/ESM/PM7 keys alone.  A
\* central record whose key is absent from PISA/ESM/PM7 but present in the
\* Workon or RGBA extract gets 'Needs Review', unless its prior Status
\* (trimmed, case-insensitive) is 'completed', which is kept.
C3_TriggerChannelsDecide ==
    Done =>
      \A i \in 1..NReg :
        RegKey(i) \in ExtractKeys \ TriggerKeys =>
          df_final_central[i].Status =
            IF Norm(RegStatus(i)) = <<"c","o","m","p","l","e","t","e","d">>
            THEN RegStatus(i) ELSE sNeedsReview

\* C3 witness: key 1001 is in the Workon or RGBA extract only, and its
\* 'Untouched' central record is flagged
C3_Witness ==
    /\ Done
    /\ k1001 \in ExtractKeys \ TriggerKeys
    /\ \E i \in 1..NReg :
         /\ RegKey(i) = k1001
         /\ RegStatus(i) = sUntouched
         /\ df_final_central[i].Status = sNeedsReview

\* the output records with a barcode
WithBarcode(k) == {j \in 1..Len(df_final_central) : df_final_central[j].Barcode = k}

\* C4, as claimed: every key in E and not in R has exactly one record in the
\* output, also when several rows or several channels carry it.
C4_Original ==
    Done =>
      \A k \in (ExtractKeys \ {<<>>}) \ RegistryKeys :
        Cardinality(WithBarcode(k)) = 1

\* C5, as claimed: when no two central records share a non-empty key, no two
\* output records share a non-empty key.
C5_Original ==
    (/\ Done
     /\ \A i, j \in 1..NReg : RegKey(i) = RegKey(j) /\ RegKey(i) # <<>> => i = j)
    => \A i, j \in 1..Len(df_final_central) :
         (/\ df_final_central[i].Barcode = df_final_central[j].Barcode
          /\ df_final_central[i].Barcode # <<>>) => i = j

\* the rows appended by Workon, RGBA and SMD, counted from the end of the
\* output; the new PISA/ESM/PM7 records lie between the central records and
\* them
NWorkon == IF "key" \in df_workon.cols THEN Len(df_workon.rows) ELSE 0
NRgba == IF "key" \in df_rgba.cols THEN Len(df_rgba.rows) ELSE 0
NSmd == Len(df_smd.rows)
NOut == Len(df_final_central)
WorkonAt(i) == df_final_central[NOut - NSmd - NRgba - NWorkon + i]
RgbaAt(i) == df_final_central[NOut - NSmd - NRgba + i]
SmdAt(i) == df_final_central[NOut - NSmd + i]
NewTriggerPositions == (NReg + 1)..(NOut - NSmd - NRgba - NWorkon)

\* the key and the status cell of the PISA (filtered), ESM and PM7 rows, in
\* the order of consolidation
TriggerSources ==
    LET p == df_pisa_filtered(df_pisa)
    IN [i \in 1..Len(p) |-> [key |-> KeyOf(p[i]["barcode"]), status |-> p[i]["status"]]]
       \o [i \in 1..Len(df_esm.rows) |->
             [key |-> KeyOf(df_esm.rows[i]["barcode"]),
              status |-> df_esm.rows[i]["state"]]]
       \o [i \in 1..Len(df_pm7.rows) |->
             [key |-> KeyOf(df_pm7.rows[i]["barcode"]),
              status |-> df_pm7.rows[i]["task"]]]

NewTriggerSources == SelectSeq(TriggerSources, LAMBDA e : e.key \notin RegistryKeys)

\* the status the claim gives a new record: the channel's, 'New' without one
ClaimedStatus(cell) == IF cell = NaN THEN sNew ELSE cell

EmptyKeyRows(cols, rows, keycol) ==
    IF keycol \in cols THEN {i \in 1..Len(rows) : rows[i][keycol] = NaN} ELSE {}

EmptyKeyRowCount ==
    Cardinality(EmptyKeyRows(df_pisa.cols, df_pisa_filtered(df_pisa), "barcode"))
    + Cardinality(EmptyKeyRows(df_esm.cols, df_esm.rows, "barcode"))
    + Cardinality(EmptyKeyRows(df_pm7.cols, df_pm7.rows, "barcode"))
    + Cardinality(EmptyKeyRows(df_workon.cols, df_workon.rows, "key"))
    + Cardinality(EmptyKeyRows(df_rgba.cols, df_rgba.rows, "key"))
    + NSmd

\* C7, as claimed: an empty key never matches.  A central record with the
\* empty key keeps its Status (no transition, no 'Needs Review'), and every
\* extract row with an empty key is appended as a record of its own.
C7_Original ==
    Done =>
      /\ \A i \in 1..NReg :
           RegKey(i) = <<>> => df_final_central[i].Status = RegStatus(i)
      /\ Cardinality({j \in (NReg + 1)..NOut :
                        df_final_central[j].Barcode \in {<<>>, <<"n","a","n">>}})
           >= EmptyKeyRowCount

\* ------------------------------------------------- enrichment: the inputs
tDE0199 == <<"D","E","0","1","9","9">>
tAB == <<"A","B">>
tKeyPadded == <<" ","D","E","0","1","9">>
tBlank == <<" ">>
tde01Padded == <<" ","d","e","0","1">>
tAPAC == <<"A","P","A","C">>
tde01xx == <<"d","e","0","1","x","x">>
tEMEAPadded == <<" ","E","M","E","A"," ">>
tFR01 == <<"F","R","0","1">>

EnrichCentralRows ==
    {CentralRow(kc[1], sUntouched, kc[2], cc, rg) :
        kc \in {<<tDE0199, sPM7>>, <<tAB, sPM7>>, <<tDE0199, sPISA>>},
        cc \in {<<>>, tBlank, tde01Padded}, rg \in {<<>>, tAPAC}}

EnrichFeedRows ==
    {Pm7Row(tKeyPadded, NaN),
     EsmRow(k1002),
     WorkonRow(k1001, tOpen, NaN, tDE01),
     RgbaRow(k1002, tde01Padded)}

MappingRow(r3_coco, region) == [r3_coco |-> r3_coco, region |-> region]

MappingRows ==
    {MappingRow(tde01xx, tEMEAPadded), MappingRow(tDE01, tAPAC),
     MappingRow(tFR01, tEMEA)}

\* a mapping sheet without the 'r3_coco' column
MappingNoCoco == Frame({"region"}, <<[region |-> tEMEA]>>)

\* enrichment: company codes, regions and barcodes against the mapping sheet
InitEnrich ==
    InitWith({Frame(CentralCols, rows) :
                 rows \in SeqsUpTo(EnrichCentralRows, MaxReg)}
               \cup {CentralNoBarcode},
             SeqsUpTo(EnrichFeedRows, MaxRows),
             {Frame(MappingCols, rows) : rows \in SeqsUpTo(MappingRows, MaxMap)}
               \cup {MappingNoCoco})

SpecEnrich == InitEnrich /\ [][Next]_vars

\* the records before the enrichment pass, by position
NMerged == Len(df_merged)

\* C8, as claimed: a record whose Region is non-blank before the enrichment
\* pass has that very Region in the output, with or without a mapping sheet
\* and a mapping entry.
C8_Original ==
    Done =>
      \A j \in 1..NMerged :
        df_merged[j].Region \notin {<<>>, None} =>
          df_final_central[j].Region = df_merged[j].Region

\* the entries of the mapping sheet for a company code: the rows whose
\* r3_coco, trimmed and in upper case, is not empty and has the same first 4
\* characters as the company code, trimmed and in upper case
MappingEntries(company_code) ==
    IF ~("r3_coco" \in region_mapping_df.cols /\ "region" \in region_mapping_df.cols)
    THEN {}
    ELSE {m \in 1..Len(region_mapping_df.rows) :
            /\ Strip(region_mapping_df.rows[m]["r3_coco"]) # <<>>
            /\ Slice(Upper(Strip(region_mapping_df.rows[m]["r3_coco"])), 4)
                 = Slice(Upper(Strip(company_code)), 4)}

\* C9: region fill.  A record whose Region is blank ('' or unset) before the
\* enrichment pass gets the region of the mapping entry for the first 4
\* characters of its Company code (trimmed, case-insensitive; the last
\* entry when several rows share the prefix), and stays blank without one.
C9_RegionFill ==
    Done =>
      \A j \in 1..NMerged :
        df_merged[j].Region \in {<<>>, None} =>
          LET entries == MappingEntries(df_final_central[j].CompanyCode)
          IN df_final_central[j].Region =
               IF entries = {} THEN <<>>
               ELSE Strip(region_mapping_df.rows[
                      CHOOSE m \in entries : \A n \in entries : n <= m]["region"])

\* C9 witness: a record with company code ' de01' and no Region got 'EMEA'
\* from the mapping row 'de01xx'
C9_Witness ==
    /\ Done
    /\ \E j \in 1..NMerged :
         /\ df_merged[j].Region \in {<<>>, None}
         /\ df_final_central[j].CompanyCode = tde01Padded
         /\ df_final_central[j].Region = tEMEA

\* blank, for a company code: nothing but whitespace
BlankCode(company_code) == company_code = None \/ Strip(company_code) = <<>>

\* C10, as claimed: a PM7 record with a blank Company code gets the first 4
\* characters of its key, whatever the key's length; every other record
\* keeps its Company code.
C10_Original ==
    Done =>
      \A j \in 1..NMerged :
        df_final_central[j].CompanyCode =
          IF df_merged[j].Channel = sPM7 /\ BlankCode(df_merged[j].CompanyCode)
          THEN Slice(Strip(df_merged[j].Barcode), 4)
          ELSE df_merged[j].CompanyCode

\* C10, amended: a PM7 record with a blank Company code gets the first 4
\* characters of its trimmed key when the key has at least 4 characters and
\* the empty Company code when it has fewer; every other record keeps its
\* Company code.
C10_CompanyCodeBackfill ==
    Done =>
      \A j \in 1..NMerged :
        df_final_central[j].CompanyCode =
          IF df_merged[j].Channel = sPM7 /\ BlankCode(df_merged[j].CompanyCode)
          THEN IF Len(Strip(df_merged[j].Barcode)) >= 4
               THEN Slice(Strip(df_merged[j].Barcode), 4)
               ELSE <<>>
          ELSE df_merged[j].CompanyCode

\* C10 witness: PM7 records with a blank Company code, one with the long key
\* ' DE019' that got 'DE01', one with the short key 'AB' that got ''
C10_Witness ==
    /\ Done
    /\ \E j \in 1..NMerged :
         /\ df_merged[j].Channel = sPM7 /\ BlankCode(df_merged[j].CompanyCode)
         /\ df_merged[j].Barcode = tKeyPadded
         /\ df_final_central[j].CompanyCode = tDE01
    /\ \E j \in 1..NMerged :
         /\ df_merged[j].Channel = sPM7 /\ df_merged[j].CompanyCode = tBlank
         /\ df_merged[j].Barcode = tAB
         /\ df_final_central[j].CompanyCode = <<>>

\* C11, as claimed: idempotence of enrichment.  The Company-code backfill
\* applied to its own result changes nothing, and the Region fill applied to
\* its own result, with the same mapping sheet, changes nothing.
C11_Original ==
    Done =>
      LET backfilled == Pm7CompanyCode(df_merged)
          filled == RegionMapping(backfilled, region_mapping_df)
      IN /\ Pm7CompanyCode(backfilled) = backfilled
         /\ RegionMapping(filled, region_mapping_df) = filled

\* ---------------------------------------------- dates and Aging: the inputs
DatesCentralRows ==
    {CentralRecord(k1001, sUntouched, sPISA, tDE01, tEMEA, rd, ad, td, ag) :
        rd \in {Timestamp(4), tTbd}, ad \in {Timestamp(5), <<>>},
        td \in {Timestamp(7), MonthDayYear(3), <<>>}, ag \in {<<"2">>, <<>>}}

DatesFeedRows ==
    {PisaRow(k1001, sSunithaS), PisaRow(k1002, sSunithaS), EsmRow(k1001),
     WorkonRow(k1002, tOpen, tEMEA, tDE01), SmdRow}

\* dates: central records with and without dates against the extracts
InitDates ==
    InitWith({Frame(CentralCols, rows) :
                 rows \in SeqsUpTo(DatesCentralRows, MaxReg)}
               \cup {CentralNoBarcode},
             SeqsUpTo(DatesFeedRows, MaxRows),
             {NoMapping})

SpecDates == InitDates /\ [][Next]_vars

\* a cell of a central record
RegCell(i, col) == df_central.rows[i][col]

\* the day of a cell that holds a date, 0 for every other cell
DayOf(cell) ==
    IF IsTimestamp(cell) THEN cell[2]
    ELSE IF \E d \in Days : cell \in {MonthDayYear(d), strftime_mdY(d)}
         THEN CHOOSE d \in Days : cell \in {MonthDayYear(d), strftime_mdY(d)}
         ELSE 0

\* an output date is the date of a central cell
SameDate(out, cell) == IF DayOf(cell) = 0 THEN out = cell ELSE DayOf(out) = DayOf(cell)

\* the text attributes and the dates of a central record are in its output
\* record
CarriesText(i) ==
    /\ df_final_central[i].Processor = RegCell(i, "processor")
    /\ df_final_central[i].Channel = RegCell(i, "channel")
    /\ df_final_central[i].Category = RegCell(i, "category")
    /\ df_final_central[i].VendorNumber = RegCell(i, "vendor_number")
    /\ df_final_central[i].VendorName = RegCell(i, "vendor_name")
    /\ df_final_central[i].Requester = RegCell(i, "requester")
    /\ df_final_central[i].Remarks = RegCell(i, "remarks")

DateFields ==
    {<<"ReceivedDate", "received_date">>, <<"ReOpenDate", "re_open_date">>,
     <<"AllocationDate", "allocation_date">>,
     <<"ClarificationDate", "clarification_date">>,
     <<"CompletionDate", "completion_date">>, <<"Today", "today">>}

C20_Original ==
    Done =>
      \A j \in 1..NOut : df_final_central[j].Today = MonthDayYear(today)

\* ------------------------------------------ order of the records: the inputs
k1003 == <<"1","0","0","3">>

OrderCentralRows ==
    {CentralRow(k1001, sUntouched, sPISA, tDE01, tEMEA),
     CentralRow(k1002, sNew, sESM, tDE01, tEMEA),
     CentralRow(k1003, tCompleted, sPM7, tDE01, tEMEA)}

OrderFeedRows ==
    {PisaRow(k1002, sSunithaS), EsmRow(k1003), Pm7Row(<<"1","0","0","4">>, tDE01),
     WorkonRow(k1001, tOpen, tEMEA, tDE01),
     RgbaRowOf(k1002, tDE01, NaN), RgbaRow(k1003, tDE01)}

\* order: central files of several records against the extracts
InitOrder ==
    InitWith({Frame(CentralCols, rows) :
                 rows \in SeqsUpTo(OrderCentralRows, MaxOrder)}
               \cup {CentralNoBarcode},
             SeqsUpTo(OrderFeedRows, MaxRows),
             {NoMapping})

SpecOrder == InitOrder /\ [][Next]_vars

\* C13: nothing is deleted.  The output has at least as many records as the
\* central file, and its i-th record is the i-th record of the central
\* file (same key, same descriptive attributes): the central records keep
\* their order and come before every appended record.
C13_NothingDeleted ==
    Done =>
      /\ NOut >= NReg
      /\ \A i \in 1..NReg :
           /\ df_final_central[i].Barcode = RegKey(i)
           /\ CarriesText(i)

\* C13 witness: two central records with different keys are the first two
\* records of an output that has appended records after them
C13_Witness ==
    /\ Done
    /\ NReg = 2 /\ RegKey(1) # RegKey(2)
    /\ NOut > NReg
    /\ df_final_central[1].Barcode = RegKey(1)
    /\ df_final_central[2].Barcode = RegKey(2)
    /\ \A j \in (NReg + 1)..NOut : df_final_central[j].Barcode \notin RegistryKeys

\* ------------------------------------------------------------ the filters
\* the PISA rows whose assigned user is one of the 6 names, and the others
PisaAdmitted ==
    {r \in 1..Len(df_pisa.rows) :
       df_pisa.rows[r]["assigned_user"] \in
         {sGoswamiSonali, sPatilJayapalGowd, sRanganathChilamakuri,
          sSridharDivya, sSunithaS, sVarunkumarN}}

PisaFilteredOut == (1..Len(df_pisa.rows)) \ PisaAdmitted

PisaKey(r) == KeyOf(df_pisa.rows[r]["barcode"])

\* the keys of the admitted PISA rows and of the ESM and PM7 rows
AdmittedKeys ==
    {PisaKey(r) : r \in PisaAdmitted}
      \cup SheetKeys(df_esm.cols, df_esm.rows, "barcode")
      \cup SheetKeys(df_pm7.cols, df_pm7.rows, "barcode")

\* the appended records of a channel
Appended(channel) ==
    {j \in (NReg + 1)..NOut : df_final_central[j].Channel = channel}

\* C14: PISA allow-list filter.  With the assigned-user column present, the
\* appended PISA records are those of the rows whose assigned user is one
\* of the 6 names (and whose key is new); a key found only in filtered-out
\* PISA rows gets no PISA, ESM or PM7 record, and a central record with
\* such a key is handled as one absent from the extracts: 'Needs Review',
\* or its 'completed' status kept.
C14_PisaAllowList ==
    (Done /\ "assigned_user" \in df_pisa.cols /\ "barcode" \in df_pisa.cols) =>
      /\ Cardinality(Appended(sPISA))
           = Cardinality({r \in PisaAdmitted : PisaKey(r) \notin RegistryKeys})
      /\ \A r \in PisaFilteredOut :
           PisaKey(r) \notin AdmittedKeys =>
             /\ \A j \in Appended(sPISA) \cup Appended(sESM) \cup Appended(sPM7) :
                  df_final_central[j].Barcode # PisaKey(r)
             /\ \A i \in 1..NReg :
                  RegKey(i) = PisaKey(r) =>
                    df_final_central[i].Status =
                      IF Norm(RegStatus(i)) = <<"c","o","m","p","l","e","t","e","d">>
                      THEN RegStatus(i) ELSE sNeedsReview

\* C14 witness: key 1001 is only in a PISA row of another user; its central
\* record, 'New' before, is flagged and not set to 'Untouched', and no PISA
\* record is appended
C14_Witness ==
    /\ Done
    /\ \E r \in PisaFilteredOut : PisaKey(r) = k1001
    /\ k1001 \notin AdmittedKeys
    /\ Appended(sPISA) = {}
    /\ \E i \in 1..NReg :
         /\ RegKey(i) = k1001 /\ RegStatus(i) = sNew
         /\ df_final_central[i].Status = sNeedsReview

\* C14 witness of a new key: key 1001 is only in a PISA row of another user
\* and in no central record, and the output has no record with it
C14_WitnessNewKey ==
    /\ Done
    /\ \E r \in PisaFilteredOut : PisaKey(r) = k1001
    /\ k1001 \notin AdmittedKeys \cup RegistryKeys
    /\ \A j \in 1..NOut : df_final_central[j].Barcode # k1001
    /\ NOut > 0

\* the RGBA rows without a current assignee: they hold no marker, whatever
\* the marker is
RgbaUnassigned ==
    {r \in 1..Len(df_rgba.rows) : df_rgba.rows[r]["current_assignee"] \in {NaN, <<>>}}

\* the records appended for the RGBA rows
RgbaAppended == {j \in (NReg + 1)..NOut : df_final_central[j].Processor = sDivya}

\* C15, as claimed: RGBA substring filter.  A row whose current assignee
\* lacks the marker produces no record, so there are at most as many RGBA
\* records as rows with a current assignee.
C15_Original ==
    Done =>
      Cardinality(RgbaAppended) <= Len(df_rgba.rows) - Cardinality(RgbaUnassigned)

\* C15, amended: no filter is applied to the RGBA extract.  When the sheet
\* has the key column, every RGBA row, whatever its current assignee, gives
\* one appended record with the row's key, Processor 'Divya' and Channel
\* 'Workon'.
C15_NoRgbaFilter ==
    (Done /\ "key" \in df_rgba.cols) =>
      /\ Cardinality(RgbaAppended) = Len(df_rgba.rows)
      /\ \A r \in 1..Len(df_rgba.rows) :
           /\ RgbaAt(r).Barcode = Str(df_rgba.rows[r]["key"])
           /\ RgbaAt(r).Processor = sDivya
           /\ RgbaAt(r).Channel = sWorkon

\* C15 witness: an RGBA row without a current assignee has its record
C15_Witness ==
    /\ Done
    /\ \E r \in RgbaUnassigned :
         /\ RgbaAt(r).Barcode = df_rgba.rows[r]["key"]
         /\ RgbaAt(r).Processor = sDivya

\* ---------------------------------------------- how a run ends: the inputs
\* every request, flawed or not, over central files and extracts with rows
InitRun ==
    /\ InitFrames({Frame(CentralCols, rows) :
                     rows \in SeqsUpTo(OrderCentralRows, MaxReg)}
                   \cup {CentralNoBarcode},
                  SeqsUpTo(OrderFeedRows, MaxRows),
                  {NoMapping})
    /\ request_files \in {"ok", "missing", "invalid", "unreadable"}
    /\ to_excel_raises \in BOOLEAN
    /\ \E path \in {NoPath, PreviousPath} : SessionWith(path)
    /\ NoPmd

SpecRun == InitRun /\ [][Next]_vars

\* every sheet of the request is without rows
NoDataCollected ==
    /\ Len(df_pisa.rows) = 0 /\ Len(df_esm.rows) = 0 /\ Len(df_pm7.rows) = 0
    /\ Len(df_workon.rows) = 0 /\ Len(df_rgba.rows) = 0 /\ Len(df_smd.rows) = 0

\* C17, as claimed: a run that collects no data from any source ends with an
\* error and writes no output.
C17_Original ==
    (pc # "ready" /\ NoDataCollected) => (pc = "error" /\ output_file = "absent")

\* C19: a run ends in one of two ways.  Either it succeeds: it returns the
\* path of the output file, the file is whole and holds the records computed
\* in this run, and the session has that path.  Or it fails, as it does for
\* a missing required file, a file of another type, an unreadable extract,
\* a Step 2 error and a Step 3 write error: it returns an error message and
\* no path, and the session has no central output path, also when an
\* earlier run had left one and when a part of the file was written.
C19_RunOutcome ==
    pc # "ready" =>
      /\ \/ /\ pc = "done"
            /\ result.success
            /\ result.output_path = "CentralFile_FinalOutput_now.xlsx"
            /\ central_output_path = result.output_path
            /\ output_file = "complete"
            /\ NOut >= NReg
         \/ /\ pc = "error"
            /\ ~result.success
            /\ result.message # ""
            /\ result.output_path = "<none>"
            /\ central_output_path = "<none>"
            /\ output_file # "complete"
      /\ pc = "error" <=>
           \/ request_files \in {"missing", "invalid", "unreadable"}
           \/ "barcode" \notin df_central.cols
           \/ to_excel_raises

\* C19 witness: a run over records failed in the write of Step 3 and left a
\* part of the file, which the session does not name
C19_Witness ==
    /\ pc = "error"
    /\ to_excel_raises
    /\ Len(df_merged) > 0
    /\ output_file = "partial"
    /\ central_output_path = NoPath
    /\ result.output_path = NoPath

\* ------------------------------------------------ missing columns: the inputs
KeyColumnDrops ==
    {NoDrop, <<"PISA", "barcode">>, <<"ESM", "barcode">>, <<"PM7", "barcode">>,
     <<"Workon", "key">>, <<"RGBA", "key">>}

ColumnsCentralRows ==
    {CentralRow(k1001, sNew, sPISA, tDE01, tEMEA),
     CentralRow(k1002, sUntouched, sPM7, tDE01, tEMEA)}

ColumnsFeedRows ==
    {PisaRow(k1001, sSunithaS), EsmRow(k1001), Pm7Row(k1002, tDE01),
     WorkonRow(k1001, tOpen, tEMEA, tDE01), RgbaRow(k1002, tDE01), SmdRow}

\* extracts of which one lacks its key column
InitColumns ==
    /\ \/ /\ InitSheets({Frame(CentralCols, rows) :
                            rows \in SeqsUpTo(ColumnsCentralRows, MaxReg)}
                          \cup {CentralNoBarcode},
                         SeqsUpTo(ColumnsFeedRows, MaxRows),
                         {NoMapping},
                         KeyColumnDrops)
          /\ RequestInOrder
       \/ FlawedRequests
    /\ NoPmd

SpecColumns == InitColumns /\ [][Next]_vars

\* the records a run over the central file would write for these extracts
RunOutput(pisa, esm, pm7, workon, rgba, smd) ==
    LET consolidated == consolidate_data_process(pisa, esm, pm7)
        updated == process_central_file_step2_update_existing(consolidated, df_central)
    IN Enrich(MergeAll(consolidated, updated, workon, rgba, smd), region_mapping_df)

\* an extract without rows
Emptied(cols) == Frame(cols, <<>>)

\* C18: missing key column.  A channel whose sheet lacks its key column
\* (barcode for PISA, ESM, PM7; key for Workon, RGBA) gives no record, and
\* the output is the one of the run in which that channel's extract is
\* empty; the missing column is no reason for an error.
C18_MissingKeyColumn ==
    /\ Done =>
         /\ "barcode" \notin df_pisa.cols =>
              /\ Appended(sPISA) = {}
              /\ df_final_central =
                   RunOutput(Emptied(PisaCols), df_esm, df_pm7, df_workon, df_rgba, df_smd)
         /\ "barcode" \notin df_esm.cols =>
              /\ Appended(sESM) = {}
              /\ df_final_central =
                   RunOutput(df_pisa, Emptied(EsmCols), df_pm7, df_workon, df_rgba, df_smd)
         /\ "barcode" \notin df_pm7.cols =>
              /\ Appended(sPM7) = {}
              /\ df_final_central =
                   RunOutput(df_pisa, df_esm, Emptied(Pm7Cols), df_workon, df_rgba, df_smd)
         /\ "key" \notin df_workon.cols =>
              /\ \A j \in (NReg + 1)..NOut : df_final_central[j].Processor # sJayapal
              /\ df_final_central =
                   RunOutput(df_pisa, df_esm, df_pm7, Emptied(WorkonCols), df_rgba, df_smd)
         /\ "key" \notin df_rgba.cols =>
              /\ \A j \in (NReg + 1)..NOut : df_final_central[j].Processor # sDivya
              /\ df_final_central =
                   RunOutput(df_pisa, df_esm, df_pm7, df_workon, Emptied(RgbaCols), df_smd)
    /\ (/\ pc # "ready" /\ request_files = "ok" /\ ~to_excel_raises
        /\ "barcode" \in df_central.cols) => Done

\* C18 witness: the Workon sheet has rows and no key column; the run is done,
\* it has no Workon record, and it has the record of the PM7 row
C18_Witness ==
    /\ Done
    /\ "key" \notin df_workon.cols /\ Len(df_workon.rows) > 0
    /\ \A j \in 1..NOut : df_final_central[j].Processor # sJayapal
    /\ Appended(sPM7) # {}

\* C18 witness of a trigger channel: the PISA sheet has a row with key 1001
\* and no barcode column, and the central record 1001, in no other extract,
\* is flagged
C18_WitnessPisa ==
    /\ Done
    /\ "barcode" \notin df_pisa.cols /\ Len(df_pisa.rows) > 0
    /\ \E i \in 1..NReg :
         /\ RegKey(i) = k1001 /\ k1001 \notin TriggerKeys
         /\ df_final_central[i].Status = sNeedsReview

\* ------------------------------------------- filter columns: the inputs
tCnPadded == <<" ","C","N"," ">>
tDE == <<"D","E">>

DumpRow(supplier_name, country) ==
    [valid_from |-> Timestamp(4), supplier_name |-> supplier_name, country |-> country]

PmdCentralRow(supplier_name, status) ==
    [valid_from |-> Timestamp(4), supplier_name |-> supplier_name,
     status |-> status, assigned |-> tSmith]

FiltersDumpRows == {DumpRow(tAcme, tCnPadded), DumpRow(tOtherVendor, tDE)}

\* the sheet read from a dump that has all its columns but one
WithoutColumn(df, col) ==
    Frame(df.cols \ {col},
          [i \in 1..Len(df.rows) |-> [c \in df.cols \ {col} |-> df.rows[i][c]]])

\* dumps with and without the country column, and one without supplier name
FiltersDumps ==
    LET full == {Frame(PmdDumpCols, rows) : rows \in SeqsUpTo(FiltersDumpRows, MaxDump)}
    IN full \cup {WithoutColumn(df, "country") : df \in full}
            \cup {Frame({"valid_from", "country"}, <<>>)}

FiltersPmdCentrals ==
    {Frame(PmdCentralCols, rows) :
       rows \in SeqsUpTo({PmdCentralRow(tAcme, sHold), PmdCentralRow(tAcme, tOpen)},
                         MaxPmdCentral)}

FiltersCentrals ==
    {Frame(CentralCols, <<>>),
     Frame(CentralCols, <<CentralRow(k1001, sNew, sPISA, tDE01, tEMEA)>>),
     CentralNoBarcode}

FiltersFeedRows == {PisaRow(k1001, tOtherUser), PisaRow(k1002, sSunithaS)}

\* a PISA extract with or without the assigned-user column, and a PMD dump
\* with or without the country column
InitFilters ==
    /\ \/ /\ InitSheets(FiltersCentrals, SeqsUpTo(FiltersFeedRows, MaxRows),
                         {NoMapping}, {NoDrop, <<"PISA", "assigned_user">>})
          /\ RequestInOrder
       \/ FlawedRequests
    /\ InitPmd(FiltersPmdCentrals, FiltersDumps)

SpecFilters == InitFilters /\ [][NextBoth]_vars

\* the PISA sheet with every row assigned to one user
WithAssignedUser(df, user) ==
    LET cols == df.cols \cup {"assigned_user"}
    IN Frame(cols,
             [i \in 1..Len(df.rows) |->
                [c \in cols |-> IF c = "assigned_user" THEN user ELSE df.rows[i][c]]])

\* C16: fail-open filtering.  When the PISA sheet has no assigned-user
\* column, every PISA row is taken: each row with a new key gives a PISA
\* record and the output is the one of a run in which every row is assigned
\* to an allowed user.  When the PMD dump has no country column, every dump
\* row gives one output row, in the dump's order.  Neither missing column
\* makes the run fail.
C16_FailOpen ==
    /\ (Done /\ "assigned_user" \notin df_pisa.cols) =>
         /\ Cardinality(Appended(sPISA))
              = Cardinality({r \in 1..Len(df_pisa.rows) : PisaKey(r) \notin RegistryKeys})
         /\ df_final_central =
              RunOutput(WithAssignedUser(df_pisa, sSunithaS),
                        df_esm, df_pm7, df_workon, df_rgba, df_smd)
    /\ (/\ pc # "ready" /\ "assigned_user" \notin df_pisa.cols
        /\ request_files = "ok" /\ ~to_excel_raises
        /\ "barcode" \in df_central.cols) => Done
    /\ (pmd_pc = "done" /\ "country" \notin df_pmd_dump.cols) =>
         /\ Len(df_output) = Len(df_pmd_dump.rows)
         /\ \A i \in 1..Len(df_output) :
              df_output[i].SupplierName = df_pmd_dump.rows[i]["supplier_name"]
    /\ (/\ pmd_pc # "ready" /\ "country" \notin df_pmd_dump.cols
        /\ {"valid_from", "supplier_name"} \subseteq df_pmd_dump.cols
        /\ PmdCentralCols \subseteq df_central_pmd.cols) => pmd_pc = "done"

\* C16 witness: both runs are done; the PISA sheet has two rows and no
\* assigned-user column and both rows gave a record; the dump has two rows
\* and no country column and both rows are in the lookup result
C16_Witness ==
    /\ Done
    /\ "assigned_user" \notin df_pisa.cols
    /\ Len(df_pisa.rows) = 2 /\ Cardinality(Appended(sPISA)) = 2
    /\ pmd_pc = "done"
    /\ "country" \notin df_pmd_dump.cols
    /\ Len(df_pmd_dump.rows) = 2 /\ Len(df_output) = 2

\* with the country column the row of ' CN ' is left out of the lookup result
C16_WitnessFiltered ==
    /\ pmd_pc = "done"
    /\ "country" \in df_pmd_dump.cols
    /\ Len(df_pmd_dump.rows) = 2 /\ Len(df_output) = 1
    /\ df_output[1].Status = sNew

\* ------------------------------------------------------ identifier columns
\* C21 as stated: in the output, Key, Company code and Vendor number are
\* never the text 'nan', whatever the channel of the record
C21_Original ==
    Done =>
      \A j \in 1..NOut :
        /\ df_final_central[j].Barcode # sNan
        /\ df_final_central[j].CompanyCode # sNan
        /\ df_final_central[j].VendorNumber # sNan

\* ---------------------------------------------------------- output columns
\* CONSOLIDATED_OUTPUT_COLUMNS, as the field names of a record
OutputColumns ==
    {"Barcode", "Processor", "Channel", "Category", "CompanyCode", "Region",
     "VendorNumber", "VendorName", "Status", "ReceivedDate", "ReOpenDate",
     "AllocationDate", "ClarificationDate", "CompletionDate", "Requester",
     "Remarks", "Aging", "Today"}

\* the columns for which the ESM rows bring no value
EsmMissingColumns ==
    {"Processor", "Category", "CompanyCode", "Region", "VendorNumber",
     "VendorName", "ClarificationDate"}

\* C22 as stated, for the records appended from ESM rows: every output
\* record has the 18 columns, and a column that the ESM rows do not bring
\* is blank
C22_Original ==
    Done =>
      \A j \in 1..NOut :
        /\ DOMAIN df_final_central[j] = OutputColumns
        /\ j \in Appended(sESM) =>
             \A col \in EsmMissingColumns : df_final_central[j][col] = <<>>

\* ------------------------------------------------- PMD lookup: the inputs
tAcmePadded == <<" ","A","C","M","E"," ">>
tHoldPadded == <<" ","H","O","L","D">>
tJonesPadded == <<" ","J","o","n","e","s">>

DumpRowOn(day, supplier_name, country) ==
    [valid_from |-> Timestamp(day), supplier_name |-> supplier_name, country |-> country]

PmdCentralRowOn(day, supplier_name, status, assigned) ==
    [valid_from |-> Timestamp(day), supplier_name |-> supplier_name,
     status |-> status, assigned |-> assigned]

LookupDumpRows ==
    {DumpRowOn(4, tAcme, tDE), DumpRowOn(4, tAcmePadded, tDE),
     DumpRowOn(5, tAcme, tDE), DumpRowOn(4, tAcme, tCnPadded),
     DumpRowOn(4, tOtherVendor, tDE)}

LookupCentralRows ==
    {PmdCentralRowOn(4, tAcme, sHold, tSmith),
     PmdCentralRowOn(4, tAcmePadded, tHoldPadded, tJonesPadded),
     PmdCentralRowOn(4, tAcme, tOpen, tSmith),
     PmdCentralRowOn(5, tAcme, sHold, tJonesPadded)}

\* a PMD lookup request; no allocation is run
InitLookup ==
    /\ InitFrames({Frame(CentralCols, <<>>)}, {<<>>}, {NoMapping})
    /\ RequestInOrder
    /\ InitPmd({Frame(PmdCentralCols, rows) :
                  rows \in SeqsUpTo(LookupCentralRows, MaxPmdCentral)},
               {Frame(PmdDumpCols, rows) : rows \in SeqsUpTo(LookupDumpRows, MaxDump)}
                 \cup {Frame({"valid_from", "country"}, <<>>)})

NextLookup == ProcessPmdLookup \/ ProcessPmdLookupFails

SpecLookup == InitLookup /\ [][NextLookup]_vars

\* the dump rows, by position, whose country is not an excluded one
DumpKept ==
    SelectSeq([i \in 1..Len(df_pmd_dump.rows) |-> i],
              LAMBDA i : Lower(Strip(df_pmd_dump.rows[i]["country"]))
                           \notin excluded_countries)

\* the same composite key: the same Valid From date and the same supplier
\* name, trimmed and case-folded
SameCompositeKey(a, b) ==
    /\ to_datetime(a["valid_from"]) = to_datetime(b["valid_from"])
    /\ Lower(Strip(a["supplier_name"])) = Lower(Strip(b["supplier_name"]))

\* the central records on hold with the composite key of a dump row
HoldMatches(row) ==
    {c \in 1..Len(df_central_pmd.rows) :
       /\ Lower(Strip(df_central_pmd.rows[c]["status"])) = lcHold
       /\ SameCompositeKey(df_central_pmd.rows[c], row)}

\* C23: PMD lookup classification.  The output has one row for every dump
\* row whose country (trimmed, case-folded) is not an excluded one, in the
\* dump's order, and none for the others.  A row's Status is 'Hold' when
\* some central record with status 'hold' (trimmed, case-folded) has its
\* composite key, and then its Assigned is the trimmed Assigned of the first
\* such record; otherwise its Status is 'New' and its Assigned is empty.
C23_Classification ==
    (pmd_pc = "done" /\ "country" \in df_pmd_dump.cols) =>
      /\ Len(df_output) = Len(DumpKept)
      /\ \A k \in 1..Len(df_output) :
           LET row == df_pmd_dump.rows[DumpKept[k]]
               hits == HoldMatches(row)
           IN /\ df_output[k].SupplierName = row["supplier_name"]
              /\ df_output[k].Country = row["country"]
              /\ df_output[k].Status = IF hits = {} THEN sNew ELSE sHold
              /\ df_output[k].Assigned =
                   IF hits = {} THEN <<>>
                   ELSE Strip(df_central_pmd.rows[
                          CHOOSE c \in hits : \A d \in hits : c <= d]["assigned"])

\* C23 witness: two central records on hold have the key of a dump row,
\* written differently; the row is 'Hold' with the Assigned of the first,
\* and a dump row of an excluded country is not in the output
C23_Witness ==
    /\ pmd_pc = "done"
    /\ Len(df_pmd_dump.rows) = 2 /\ Len(df_output) = 1
    /\ df_pmd_dump.rows[1]["country"] = tCnPadded
    /\ Cardinality(HoldMatches(df_pmd_dump.rows[2])) = 2
    /\ df_central_pmd.rows[1]["assigned"] = tSmith
    /\ df_central_pmd.rows[2]["assigned"] = tJonesPadded
    /\ df_output[1].Status = sHold
    /\ df_output[1].Assigned = tSmith

\* a dump row whose key is only that of a central record not on hold is 'New'
C23_WitnessNew ==
    /\ pmd_pc = "done"
    /\ Len(df_output) = 1
    /\ \E c \in 1..Len(df_central_pmd.rows) :
         /\ SameCompositeKey(df_central_pmd.rows[c], df_pmd_dump.rows[1])
         /\ df_central_pmd.rows[c]["status"] = tOpen
    /\ df_output[1].Status = sNew /\ df_output[1].Assigned = <<>>

\* --------------------------------------------------------- enrichment order
\* a PM7 record, before the enrichment pass, with a blank Company code, a
\* blank Region and a key of at least 4 characters
Pm7ToBackfill(j) ==
    /\ df_merged[j].Channel = sPM7
    /\ BlankCode(df_merged[j].CompanyCode)
    /\ df_merged[j].Region \in {<<>>, None}
    /\ Len(Strip(df_merged[j].Barcode)) >= 4

\* C25: enrichment order.  The Company-code backfill runs before the Region
\* fill: a PM7 record with a blank Company code and a blank Region, whose
\* key's first 4 characters have a mapping entry, ends the run with that
\* prefix as its Company code and the entry's region as its Region.
C25_BackfillBeforeRegion ==
    Done =>
      \A j \in 1..NMerged :
        LET prefix == Slice(Strip(df_merged[j].Barcode), 4)
            entries == MappingEntries(prefix)
        IN (Pm7ToBackfill(j) /\ entries # {}) =>
             /\ df_final_central[j].CompanyCode = prefix
             /\ df_final_central[j].Region =
                  Strip(region_mapping_df.rows[
                    CHOOSE m \in entries : \A n \in entries : n <= m]["region"])

\* C25 witness: the new PM7 record of key ' DE019', without Company code and
\* Region, ends as 'DE01' in 'APAC'
C25_Witness ==
    /\ Done
    /\ \E j \in (NReg + 1)..NMerged :
         /\ Pm7ToBackfill(j)
         /\ df_merged[j].Barcode = tKeyPadded
         /\ df_final_central[j].CompanyCode = tDE01
         /\ df_final_central[j].Region = tAPAC

\* ------------------------------------------------------ one branch per run
\* C27: one branch per record and run.  A central record whose key is in the
\* PISA/ESM/PM7 set takes one step of the transition table ('n/a' ends as
\* 'New', 'new' as 'Untouched', 'completed' as 'Reopen') and is not set to
\* 'Needs Review'; a central record whose key is not in the set keeps its
\* status or is set to 'Needs Review', and takes no step of the table.
C27_OneBranch ==
    Done =>
      \A i \in 1..NReg :
        LET prior == RegStatus(i)
            out == df_final_central[i].Status
        IN IF RegKey(i) \in TriggerKeys
           THEN /\ out = sNeedsReview => prior = sNeedsReview
                /\ Norm(prior) = lcNA => out = sNew
                /\ Norm(prior) = lcNew => out = sUntouched
                /\ Norm(prior) = lcCompleted => out = sReopen
           ELSE out \in {prior, sNeedsReview}

\* C27 witness: a central record with status 'N/A' and its key in a PISA or
\* ESM row ends the run as 'New'
C27_Witness ==
    /\ Done
    /\ \E i \in 1..NReg :
         /\ RegKey(i) = k1001 /\ k1001 \in TriggerKeys
         /\ RegStatus(i) = tNA
         /\ df_final_central[i].Status = sNew

\* ------------------------------------------------------------ column names
\* the characters of the column names as read
NameChars == {"A", "b", "7", " ", "_", "-"}

\* the header rows as read: one column, of any name
HeaderRows == {<<name>> : name \in SeqsUpTo(NameChars, MaxName)}

\* clean_column_names(df): on a sheet as read, or on a sheet it has cleaned
CleanColumnNames ==
    /\ \E cols \in (IF columns = <<>> THEN HeaderRows ELSE {new_columns}) :
         /\ columns' = cols
         /\ new_columns' = [i \in 1..Len(cols) |-> clean_column_name(cols[i])]
    /\ UNCHANGED <<allocation, pmd, temp_dir, disk, download_response>>

\* no request is being served
InitIdle ==
    /\ InitFrames({Frame(CentralCols, <<>>)}, {<<>>}, {NoMapping})
    /\ RequestInOrder
    /\ NoPmd

SpecClean == InitIdle /\ [][CleanColumnNames]_vars

\* only characters of [a-z0-9_], no underscore first or last
WellFormedName(name) ==
    /\ \A k \in 1..Len(name) : name[k] \in CleanChars
    /\ name # <<>> => (name[1] # "_" /\ name[Len(name)] # "_")

\* C24: column-name normalization.  Every cleaned name has only characters
\* of [a-z0-9_] and no leading or trailing underscore, and cleaning it again
\* gives the same name: a sheet cleaned twice has the names of the sheet
\* cleaned once.
C24_CleanIdempotent ==
    \A i \in 1..Len(new_columns) :
      /\ WellFormedName(new_columns[i])
      /\ clean_column_name(new_columns[i]) = new_columns[i]
      /\ columns[i] = clean_column_name(columns[i]) => new_columns[i] = columns[i]

\* C24 witness: the sheet with the name 'a_b', which 'A b' was cleaned to,
\* has been cleaned again and has kept the name
C24_Witness ==
    /\ columns = << <<"a","_","b">> >>
    /\ new_columns = << <<"a","_","b">> >>

\* ------------------------------------------------- the output as registry
\* CONSOLIDATED_OUTPUT_COLUMNS: the header of every column of the output
OutputHeader ==
    [Barcode |-> <<"B","a","r","c","o","d","e">>,
     Processor |-> <<"P","r","o","c","e","s","s","o","r">>,
     Channel |-> <<"C","h","a","n","n","e","l">>,
     Category |-> <<"C","a","t","e","g","o","r","y">>,
     CompanyCode |-> <<"C","o","m","p","a","n","y"," ","c","o","d","e">>,
     Region |-> <<"R","e","g","i","o","n">>,
     VendorNumber |-> <<"V","e","n","d","o","r"," ","n","u","m","b","e","r">>,
     VendorName |-> <<"V","e","n","d","o","r"," ","N","a","m","e">>,
     Status |-> <<"S","t","a","t","u","s">>,
     ReceivedDate |-> <<"R","e","c","e","i","v","e","d"," ","D","a","t","e">>,
     ReOpenDate |-> <<"R","e","-","O","p","e","n"," ","D","a","t","e">>,
     AllocationDate |-> <<"A","l","l","o","c","a","t","i","o","n"," ","D","a","t","e">>,
     ClarificationDate |->
         <<"C","l","a","r","i","f","i","c","a","t","i","o","n"," ","D","a","t","e">>,
     CompletionDate |-> <<"C","o","m","p","l","e","t","i","o","n"," ","D","a","t","e">>,
     Requester |-> <<"R","e","q","u","e","s","t","e","r">>,
     Remarks |-> <<"R","e","m","a","r","k","s">>,
     Aging |-> <<"A","g","i","n","g">>,
     Today |-> <<"T","o","d","a","y">>]

\* a text as a column name of a sheet
RECURSIVE ColumnName(_)
ColumnName(text) == IF text = <<>> THEN "" ELSE Head(text) \o ColumnName(Tail(text))

\* the name a column of the output has once the file is read as a central
\* file and clean_column_names has run
CleanedHeader(col) == ColumnName(clean_column_name(OutputHeader[col]))

\* the output file read as the central file of a request: to_excel, then
\* pd.read_excel(keep_default_na=False) and clean_column_names; every cell
\* of the output is a text
ReadAsCentral(df) ==
    LET cols == {CleanedHeader(col) : col \in OutputColumns}
    IN Frame(cols,
             [i \in 1..Len(df) |->
                [c \in cols |->
                   df[i][CHOOSE col \in OutputColumns : CleanedHeader(col) = c]]])

\* the next request of the session: the output of the run before is
\* uploaded as the central file
UploadOutput ==
    /\ pc = "done"
    /\ runs < MaxRuns
    /\ pc' = "ready"
    /\ df_central' = ReadAsCentral(df_final_central)
    /\ df_consolidated' = <<>>
    /\ df_updated' = <<>>
    /\ df_merged' = <<>>
    /\ df_final_central' = <<>>
    /\ result' = NoResult
    /\ output_file' = "absent"
    /\ UNCHANGED <<today, region_mapping_df, request, central_output_path, runs,
                   temp_dir, disk, download_response, cleaning, pmd>>

\* the same extracts are uploaded again
RepeatRequest ==
    /\ UploadOutput
    /\ UNCHANGED <<df_pisa, df_esm, df_pm7, df_workon, df_rgba, df_smd>>

NextRepeat == Next \/ RepeatRequest

RepeatCentralRows ==
    {CentralRow(k1001, st, sPISA, tDE01, tEMEA) :
        st \in {sNew, tCompleted, tNA, sUntouched, tOpen}}

RepeatFeedRows ==
    {PisaRow(k1001, sSunithaS), EsmRow(k1002), Pm7Row(k1002, tDE01),
     WorkonRow(k1003, tOpen, tEMEA, tDE01), RgbaRow(k1002, tDE01)}

\* runs repeated on the same extracts
InitRepeat ==
    InitWith({Frame(CentralCols, rows) :
                 rows \in SeqsUpTo(RepeatCentralRows, MaxReg)}
               \cup {CentralNoBarcode},
             SeqsUpTo(RepeatFeedRows, MaxRows),
             {NoMapping})

SpecRepeat == InitRepeat /\ [][NextRepeat]_vars

\* C26 as stated: a run on the output of the run before and on the same
\* extracts appends no record with a non-empty key
C26_Original ==
    (Done /\ runs >= 2) =>
      \A j \in (NReg + 1)..NOut : df_final_central[j].Barcode = <<>>

\* C29: fixed point of the status.  Over runs that each take the output of
\* the run before as their central file, with the same extracts, a record
\* whose key is in the PISA/ESM/PM7 rows takes the step of the table in
\* each run ('n/a' to 'New', 'new' to 'Untouched', 'completed' to
\* 'Reopen'); from the second run on its Status is one the table leaves
\* alone, and from the third run on no run changes it.
C29_FixedPoint ==
    Done =>
      \A i \in 1..NReg :
        RegKey(i) \in TriggerKeys =>
          LET prior == RegStatus(i)
              out == df_final_central[i].Status
          IN /\ out = (IF Norm(prior) = lcNA THEN sNew
                       ELSE IF Norm(prior) = lcNew THEN sUntouched
                       ELSE IF Norm(prior) = lcCompleted THEN sReopen
                       ELSE prior)
             /\ runs >= 2 => Norm(out) \notin {lcNA, lcNew, lcCompleted}
             /\ runs >= 3 => out = prior

\* C29 witness: in the second run the record of the first central file,
\* 'N/A' there and 'New' after the first run, becomes 'Untouched'
C29_Witness ==
    /\ Done /\ runs = 2
    /\ NReg >= 1 /\ Len(df_final_central) >= 1
    /\ RegKey(1) = k1001 /\ k1001 \in TriggerKeys
    /\ df_central.rows[1]["category"] = tInvoice
    /\ RegStatus(1) = sNew
    /\ df_final_central[1].Status = sUntouched

\* in the third run the record stays 'Untouched'
C29_WitnessThird ==
    /\ Done /\ runs = 3
    /\ NReg >= 1 /\ Len(df_final_central) >= 1
    /\ RegKey(1) = k1001 /\ k1001 \in TriggerKeys
    /\ df_central.rows[1]["category"] = tInvoice
    /\ RegStatus(1) = sUntouched
    /\ df_final_central[1].Status = sUntouched

\* ---------------------------------------------------------------------
\* runs on changing extracts: each request brings the output of the run
\* before as its central file and extracts of its own
RunsCentralRows ==
    {CentralRow(k1001, tOpen, sPISA, tDE01, tEMEA),
     CentralRow(k1001, sNeedsReview, sESM, tDE01, tEMEA),
     CentralRow(k1001, tCompleted, sPM7, tDE01, tEMEA)}

RunsFeedRows ==
    {PisaRow(k1001, sSunithaS), EsmRow(k1002)}

RunsFeeds == SeqsUpTo(RunsFeedRows, MaxRows)

NextRequest ==
    /\ UploadOutput
    /\ \E feed \in RunsFeeds :
         /\ df_pisa' = SheetOf("PISA", PisaCols, feed, NoDrop)
         /\ df_esm' = SheetOf("ESM", EsmCols, feed, NoDrop)
         /\ df_pm7' = SheetOf("PM7", Pm7Cols, feed, NoDrop)
         /\ df_workon' = SheetOf("Workon", WorkonCols, feed, NoDrop)
         /\ df_rgba' = SheetOf("RGBA", RgbaCols, feed, NoDrop)
         /\ df_smd' = SheetOf("SMD", SmdCols, feed, NoDrop)

NextRuns == Next \/ NextRequest

InitRuns ==
    InitWith({Frame(CentralCols, rows) :
                 rows \in SeqsUpTo(RunsCentralRows, MaxReg)}
               \cup {CentralNoBarcode},
             RunsFeeds,
             {NoMapping})

SpecRuns == InitRuns /\ [][NextRuns]_vars

\* C28: 'Needs Review' is kept.  In every run of a sequence in which each
\* run reads the output of the run before, a record that comes in with the
\* Status 'Needs Review' goes out with it, whether or not its key is in
\* the PISA/ESM/PM7 rows of that run.
C28_NeedsReviewAbsorbing ==
    Done =>
      \A i \in 1..NReg :
        RegStatus(i) = sNeedsReview => df_final_central[i].Status = sNeedsReview

\* C28 witness: the record was flagged in the first run, its key is in the
\* rows of the second run, and it is still 'Needs Review'
C28_Witness ==
    /\ Done /\ runs = 2
    /\ NReg >= 1 /\ Len(df_final_central) >= 1
    /\ RegKey(1) = k1001 /\ k1001 \in TriggerKeys
    /\ df_central.rows[1]["channel"] = sPISA
    /\ RegStatus(1) = sNeedsReview
    /\ df_final_central[1].Status = sNeedsReview

\* the key stays away in the third run
C28_WitnessAbsent ==
    /\ Done /\ runs = 3
    /\ NReg >= 1 /\ Len(df_final_central) >= 1
    /\ RegKey(1) = k1001 /\ k1001 \notin TriggerKeys
    /\ df_central.rows[1]["channel"] = sPISA
    /\ RegStatus(1) = sNeedsReview
    /\ df_final_central[1].Status = sNeedsReview

\* ---------------------------------------------------------------------
\* the session: both processing routes, download_file, index and
\* cleanup_session
OtherFile == "other.xlsx"
DownloadNames ==
    {final_central_output_file_path, pmd_output_file_path, PreviousPath, OtherFile}

\* shutil.rmtree(temp_dir): the files of the directory are gone
RmTree(dir) == {f \in disk : f[1] # dir}

\* download_file: the directory is the one of the session, the file name
\* has to be the base name of one of the two paths of the session, and the
\* file has to be in that directory; send_file of a file that is there is
\* taken to succeed
DownloadFile(filename) ==
    /\ filename \in DownloadNames
    /\ LET b_segment_session_path == central_output_path
           pmd_lookup_session_path == pmd_lookup_output_path
           matched == \/ /\ b_segment_session_path # NoPath
                         /\ b_segment_session_path = filename
                      \/ /\ pmd_lookup_session_path # NoPath
                         /\ pmd_lookup_session_path = filename
       IN download_response' =
            IF temp_dir = NoDir THEN RedirectToIndex
            ELSE IF matched /\ <<temp_dir, filename>> \in disk
                 THEN SendFile(temp_dir, filename)
                 ELSE RedirectToIndex
    /\ UNCHANGED <<allocation, pmd, temp_dir, disk, cleaning>>

\* the session after index and after cleanup_session: the paths and the
\* directory are popped, the directory is removed
SessionCleared ==
    /\ central_output_path' = NoPath
    /\ pmd_lookup_output_path' = NoPath
    /\ disk' = IF temp_dir # NoDir THEN RmTree(temp_dir) ELSE disk
    /\ temp_dir' = NoDir
    /\ UNCHANGED <<inputs, pc, df_consolidated, df_updated, df_merged,
                   df_final_central, request, result, output_file, runs, pmd_pc,
                   df_central_pmd, df_pmd_dump, df_output, cleaning>>

\* index: the page is rendered
Index == SessionCleared /\ UNCHANGED download_response

\* cleanup_session: the answer is the redirect to the index page
CleanupSession == SessionCleared /\ download_response' = RedirectToIndex

NextSession ==
    \/ NextBoth
    \/ \E filename \in DownloadNames : DownloadFile(filename)
    \/ Index
    \/ CleanupSession

SessionCentrals ==
    {Frame(CentralCols, rows) :
        rows \in SeqsUpTo({CentralRow(k1001, sNew, sPISA, tDE01, tEMEA)}, MaxReg)}
      \cup {CentralNoBarcode}

InitSession ==
    /\ InitRequests(SessionCentrals,
                    SeqsUpTo({PisaRow(k1001, sSunithaS)}, MaxRows),
                    {NoMapping})
    /\ InitPmd({Frame(PmdCentralCols, rows) :
                  rows \in SeqsUpTo({PmdCentralRowOn(4, tAcme, sHold, tSmith)},
                                    MaxPmdCentral)},
               {Frame(PmdDumpCols, rows) :
                  rows \in SeqsUpTo({DumpRowOn(4, tAcme, tDE)}, MaxDump)}
                 \cup {Frame({"valid_from", "country"}, <<>>)})

SpecSession == InitSession /\ [][NextSession]_vars

\* the output of the allocation run, of the lookup run, is asked for while
\* its path is in the session: the run succeeded and neither index nor
\* cleanup_session was requested since
AllocationOutputAsked ==
    /\ pc = "done"
    /\ central_output_path = final_central_output_file_path
    /\ DownloadFile(final_central_output_file_path)

LookupOutputAsked ==
    /\ pmd_pc = "done"
    /\ pmd_lookup_output_path = pmd_output_file_path
    /\ DownloadFile(pmd_output_file_path)

\* C30 as stated: a download request for the file name a successful run
\* returned is answered with the output file of that run as long as
\* neither index nor cleanup_session was requested since, also when the
\* route of the other feature ran in between
C30_Original ==
    [][/\ AllocationOutputAsked =>
            download_response' =
              SendFile(<<"b_segment", runs>>, final_central_output_file_path)
       /\ LookupOutputAsked =>
            download_response' = SendFile(PmdDir, pmd_output_file_path)]_vars

\* what the code does: the file is served when the directory of the
\* session is still the one of the run, else the answer is the redirect
DownloadFromSessionDir ==
    [][/\ AllocationOutputAsked =>
            download_response' =
              IF temp_dir = <<"b_segment", runs>>
              THEN SendFile(temp_dir, final_central_output_file_path)
              ELSE RedirectToIndex
       /\ LookupOutputAsked =>
            download_response' =
              IF temp_dir = PmdDir
              THEN SendFile(PmdDir, pmd_output_file_path)
              ELSE RedirectToIndex]_vars

\* the allocation output asked for after the lookup route ran: the redirect
AllocationOutputLost ==
    /\ pc = "done" /\ pmd_pc \in {"done", "error"}
    /\ central_output_path = final_central_output_file_path
    /\ temp_dir = PmdDir
    /\ <<<<"b_segment", runs>>, final_central_output_file_path>> \in disk
    /\ download_response = RedirectToIndex

\* the allocation output served from the directory of its run
AllocationOutputServed ==
    /\ pc = "done"
    /\ download_response = SendFile(<<"b_segment", runs>>, final_central_output_file_path)

====
